---- MODULE Spec2Model ----
(***************************************************************************)
(* Bounty Watch: the domain lookup pipeline (probes, merge/dedupe), the    *)
(* domain result cache and the per-tab badge controller of background.js,  *)
(* with the listener and probe variants found in the other source files.   *)
(*                                                                         *)
(* Text is modelled as a sequence of tokens: a URL "https://a.com/x/" is   *)
(* <<"https:", "//", "a.com", "/", "x", "/">>.  A token is a piece of text *)
(* no regular expression or URL rule of the program looks inside, except   *)
(* through the token classes defined below.                                *)
(***************************************************************************)
EXTENDS Integers, Sequences, FiniteSets, TLC

VARIABLES
    dd,           \* one call of dedupePrograms: its argument and its return value
    pr,           \* one call of a parser: its arguments and its return value
    ui,           \* the settings page: its calls that add a manual program
    settingsPage, \* the settings page: the list it displays and its deleteProgram call
    apiKeys,      \* the in-memory API keys of the API-key variant of the service worker
    lk,           \* one run of performLookup: where it waits and its local variables
    storage,      \* chrome.storage.sync: the manualPrograms list
    tabs,         \* the browser's tabs: open, url, active
    badge,        \* chrome.action per tab: badge text, badge colour, title
    domainCache,  \* the Map domainCache
    timers,       \* the pending setTimeout callbacks that delete cache entries
    now,          \* the clock, in minutes
    checks,       \* the running listener and checkDomainAndUpdateBadge invocations
    events        \* the number of tab events so far

dedupeVars == <<dd>>
lookupVars == <<lk, storage, apiKeys>>
badgeVars == <<tabs, badge, domainCache, timers, now, checks, events>>
vars == <<dd, pr, ui, settingsPage, lk, storage, apiKeys, tabs, badge, domainCache, timers, now, checks, events>>

(***************************************************************************)
(* Bounds of the model.                                                    *)
(***************************************************************************)
MaxList == 3
MaxLines == 2
MaxAdds == 2
NumTabs == 2
MaxChecks == 2
MaxEvents == 2
MaxTime == 15
TickStep == 5

(***************************************************************************)
(* Constants of the program.                                               *)
(***************************************************************************)
\* 10 * 60 * 1000 ms, in minutes
TTL == 10

(***************************************************************************)
(* Text and URLs.                                                          *)
(***************************************************************************)
Domains == {"a.com", "hackerone.com"}

SchemeTokens ==
    {"https:", "http:", "HTTPS:", "chrome:", "chrome-extension:", "moz-extension:", "edge:"}

PlatformHosts == {"hackerone.com", "bugcrowd.com", "yeswehack.com", "intigriti.com"}

HostTokens == Domains \cup PlatformHosts \cup {"A.COM", "settings"}

\* String.prototype.toLowerCase on one token (the URL parser lower-cases the
\* scheme and the host, never the path).
toLowerCase(tok) ==
    CASE tok = "HTTPS:" -> "https:"
      [] tok = "A.COM" -> "a.com"
      [] OTHER -> tok

\* new URL(link) succeeds: an absolute URL, a scheme, "//", a host and then
\* nothing or a path that starts with "/"; or an about: URL, which has no
\* host.  Anything else throws TypeError.
URLParses(link) ==
    \/ /\ Len(link) >= 3
       /\ link[1] \in SchemeTokens
       /\ link[2] = "//"
       /\ link[3] \in HostTokens
       /\ (Len(link) > 3 => link[4] \in {"/", "//"})
    \/ /\ Len(link) >= 1
       /\ link[1] = "about:"

\* (new URL(link)).href: scheme and host lower-cased, an empty path becomes "/".
URLhref(link) ==
    IF link[1] = "about:" THEN link
    ELSE <<toLowerCase(link[1]), "//", toLowerCase(link[3])>>
             \o (IF Len(link) = 3 THEN <<"/">> ELSE SubSeq(link, 4, Len(link)))

\* (new URL(link)).hostname
URLhostname(link) == IF link[1] = "about:" THEN "" ELSE toLowerCase(link[3])

\* s.replace(/\/$/, ''): one trailing slash removed.
replaceTrailingSlash(s) ==
    IF Len(s) > 0 /\ s[Len(s)] = "/" THEN SubSeq(s, 1, Len(s) - 1)
    ELSE IF Len(s) > 0 /\ s[Len(s)] = "//" THEN [s EXCEPT ![Len(s)] = "/"]
    ELSE s

\* makeProgram(source, link, domain)
makeProgram(source, link, domain) ==
    [platform |-> source, link |-> link, scope |-> domain,
     description |-> "", rewards |-> ""]

(***************************************************************************)
(* dedupePrograms                                                          *)
(***************************************************************************)
\* Mutant: the catch branch keys every record whose link does not parse by
\* one and the same string.
dedupeKeyOneInvalid(p) ==
    IF URLParses(p.link) THEN replaceTrailingSlash(URLhref(p.link)) ELSE <<"invalid">>

\* The key one loop iteration of dedupePrograms uses for record p: the try
\* branch when new URL(p.link) succeeds, the catch branch otherwise.
dedupeKey(p) ==
    IF URLParses(p.link) THEN replaceTrailingSlash(URLhref(p.link)) ELSE p.link

\* A Map as the sequence of its [key, val] entries in insertion order.
mapHas(map, key) == \E k \in 1..Len(map) : map[k].key = key

\* Mutant: map.set(key, p) without the has() guard; the entry keeps its place
\* in the Map and takes the later record.
mapSetAlways(map, key, p) ==
    IF mapHas(map, key)
        THEN [k \in 1..Len(map) |->
                 IF map[k].key = key THEN [key |-> key, val |-> p] ELSE map[k]]
        ELSE Append(map, [key |-> key, val |-> p])

\* map.set(key, p) guarded by !map.has(key)
mapSetIfAbsent(map, key, p) ==
    IF mapHas(map, key) THEN map ELSE Append(map, [key |-> key, val |-> p])

RECURSIVE dedupeLoop(_, _, _)
dedupeLoop(list, i, map) ==
    IF i > Len(list) THEN map
    ELSE dedupeLoop(list, i + 1, mapSetIfAbsent(map, dedupeKey(list[i]), list[i]))

\* Array.from(map.values())
mapValues(map) == [k \in 1..Len(map) |-> map[k].val]

\* Mutant: the Map is keyed by the raw link, without URL normalisation.
dedupeProgramsRawKey(list) ==
    LET RECURSIVE loop(_, _)
        loop(i, map) ==
            IF i > Len(list) THEN map
            ELSE loop(i + 1, mapSetIfAbsent(map, list[i].link, list[i]))
    IN mapValues(loop(1, <<>>))

dedupePrograms(list) == mapValues(dedupeLoop(list, 1, <<>>))

(***************************************************************************)
(* parseSecurityTxt and parseHomepageForBounty (background.js).  A         *)
(* security.txt body is the sequence of its lines, the homepage markup one *)
(* sequence of tokens.                                                     *)
(***************************************************************************)
HttpSchemes == {"http:", "https:", "HTTPS:"}    \* /https?:/i

Quotes == {"\"", "'"}

Whitespace == {" "}

\* the tokens [^"'\s] excludes
UrlStop == Quotes \cup Whitespace

\* The last index of the run of tokens outside `stop` that starts at j.
RECURSIVE runEnd(_, _, _)
runEnd(line, j, stop) ==
    IF j + 1 <= Len(line) /\ line[j + 1] \notin stop
        THEN runEnd(line, j + 1, stop)
        ELSE j

\* /(https?:\/\/[^"'\s]+)/i matches at token i of the line
urlMatchAt(line, i) ==
    /\ i + 2 <= Len(line)
    /\ line[i] \in HttpSchemes
    /\ line[i + 1] = "//"
    /\ line[i + 2] \notin UrlStop

\* line.match(...): m[1] of the leftmost match as <<m1>>, or <<>> for null
lineMatch(line) ==
    LET hits == { i \in 1..Len(line) : urlMatchAt(line, i) }
    IN IF hits = {} THEN <<>>
       ELSE LET i == CHOOSE h \in hits : \A g \in hits : h <= g
            IN <<SubSeq(line, i, runEnd(line, i + 2, UrlStop))>>

RECURSIVE parseSecurityTxtFrom(_, _, _, _)
parseSecurityTxtFrom(txt, k, domain, programs) ==
    IF k > Len(txt) THEN programs
    ELSE LET m == lineMatch(txt[k])
         IN parseSecurityTxtFrom(txt, k + 1, domain,
                IF m # <<>>
                    THEN Append(programs, makeProgram("Security.txt", m[1], domain))
                    ELSE programs)

parseSecurityTxt(txt, domain) == parseSecurityTxtFrom(txt, 1, domain, <<>>)

HrefTokens == {"href=", "HREF="}                \* /href=/i

\* link.startsWith('/')
startsWithSlash(link) == Len(link) > 0 /\ link[1] \in {"/", "//"}

\* tokens in which /hackerone|bugcrowd|intigriti|yeswehack/i finds a match
PlatformNameTokens ==
    {"hackerone.com", "bugcrowd.com", "yeswehack.com", "intigriti.com",
     "hackerone", "HackerOne"}

hasPlatformName(link) == \E k \in 1..Len(link) : link[k] \in PlatformNameTokens

\* tokens in which /bug bounty|responsible disclosure|vulnerability/i finds a match
KeywordTokens ==
    {"bug bounty", "Bug Bounty", "responsible disclosure", "vulnerability"}

hasKeyword(html) == \E k \in 1..Len(html) : html[k] \in KeywordTokens

\* the index of the first quote at or after j, 0 when there is none
firstQuote(html, j) ==
    LET qs == { q \in j..Len(html) : html[q] \in Quotes }
    IN IF qs = {} THEN 0 ELSE CHOOSE q \in qs : \A r \in qs : q <= r

\* /href=["']([^"']+)["']/ig matches at token i: its closing quote, else 0
hrefMatchEnd(html, i) ==
    IF /\ i + 3 <= Len(html)
       /\ html[i] \in HrefTokens
       /\ html[i + 1] \in Quotes
       /\ html[i + 2] \notin Quotes
        THEN firstQuote(html, i + 3)
        ELSE 0

\* the while loop over hrefRegex.exec(html), scanning from token i
RECURSIVE hrefLoop(_, _, _, _)
hrefLoop(html, i, domain, programs) ==
    IF i > Len(html) THEN programs
    ELSE LET j == hrefMatchEnd(html, i)
         IN IF j = 0 THEN hrefLoop(html, i + 1, domain, programs)
            ELSE LET m1 == SubSeq(html, i + 2, j - 1)
                     link == IF startsWithSlash(m1)
                                THEN <<"https:", "//", domain>> \o m1
                                ELSE m1
                 IN hrefLoop(html, j + 1, domain,
                        IF hasPlatformName(link)
                            THEN Append(programs, makeProgram("Platform", link, domain))
                            ELSE programs)

parseHomepageForBounty(html, domain) ==
    LET links == hrefLoop(html, 1, domain, <<>>)
    IN IF hasKeyword(html)
        THEN Append(links, makeProgram("Website", <<"https:", "//", domain>>, domain))
        ELSE links

\* parseSecurityTxt of the simplified background.js: /(https?:\/\/[^"]+)/i,
\* where only a double quote ends the match
simplified_lineMatch(line) ==
    LET hits == { i \in 1..Len(line) :
                     /\ i + 2 <= Len(line)
                     /\ line[i] \in HttpSchemes
                     /\ line[i + 1] = "//"
                     /\ line[i + 2] # "\"" }
    IN IF hits = {} THEN <<>>
       ELSE LET i == CHOOSE h \in hits : \A g \in hits : h <= g
            IN <<SubSeq(line, i, runEnd(line, i + 2, {"\""}))>>

RECURSIVE simplified_parseSecurityTxtFrom(_, _, _, _)
simplified_parseSecurityTxtFrom(txt, k, domain, programs) ==
    IF k > Len(txt) THEN programs
    ELSE LET m == simplified_lineMatch(txt[k])
         IN simplified_parseSecurityTxtFrom(txt, k + 1, domain,
                IF m # <<>>
                    THEN Append(programs, makeProgram("Security.txt", m[1], domain))
                    ELSE programs)

simplified_parseSecurityTxt(txt, domain) ==
    simplified_parseSecurityTxtFrom(txt, 1, domain, <<>>)

(***************************************************************************)
(* The state of the badge controller (background.js): the tabs, the badge  *)
(* of each tab, the domain cache and the running invocations.              *)
(***************************************************************************)
Tabs == 1..NumTabs

CheckSlots == 1..MaxChecks

UrlA == <<"https:", "//", "a.com", "/">>
UrlH == <<"https:", "//", "hackerone.com", "/", "security">>
UrlChrome == <<"chrome:", "//", "settings">>
UrlAbout == <<"about:", "blank">>

\* the pages a tab may show
TabUrlPool == {UrlA, UrlH, UrlChrome, UrlAbout}

\* the keys the domain cache may get
CacheKeys == Domains \cup {"settings"}

\* isExtensionUrl(url): the five startsWith tests
isExtensionUrl(url) ==
    \/ /\ Len(url) >= 2
       /\ url[1] \in {"chrome:", "chrome-extension:", "moz-extension:", "edge:"}
       /\ url[2] = "//"
    \/ /\ Len(url) >= 1
       /\ url[1] = "about:"

\* the badge texts, colours and titles of updateBadge; the two texts are the
\* check mark and the cross of the source, spelled out
TextFound == "check-mark"
TextNotFound == "cross-mark"
ColorFound == "#10B981"
ColorNotFound == "#EF4444"
TitleFound == "Bounty Watch - Bug bounty program found!"
TitleNotFound == "Bounty Watch - No bug bounty program found"

\* the badge of a tab no call has set
NoBadge == [text |-> "", color |-> "", title |-> ""]

NoEntry == [has |-> FALSE, found |-> FALSE, timestamp |-> 0]

FreeSlot ==
    [pc |-> "free", domain |-> "", tabId |-> 0, found |-> FALSE,
     raised |-> "none", caught |-> "none", attemptedFalse |-> FALSE,
     touched |-> FALSE, lookedUp |-> FALSE, rejected |-> "none", response |-> <<>>]

\* the service worker has just started: every tab is open on about:blank, tab 1
\* is the active one, nothing is cached and nothing runs
BadgeIdle ==
    /\ tabs = [t \in Tabs |-> [open |-> TRUE, url |-> UrlAbout, active |-> (t = 1)]]
    /\ badge = [t \in Tabs |-> NoBadge]
    /\ domainCache = [d \in CacheKeys |-> NoEntry]
    /\ timers = {}
    /\ now = 0
    /\ checks = [s \in CheckSlots |-> FreeSlot]
    /\ events = 0


(***************************************************************************)
(* performLookup (background.js): lookupBountyPrograms runs the four       *)
(* probes one after the other; lk.pc names the await it is suspended at.   *)
(***************************************************************************)
Statuses == {200, 301, 302, 404}

\* Response.ok
respOk(status) == status >= 200 /\ status <= 299

\* a text or null
NullText == [isNull |-> TRUE, text |-> <<>>]
Text(t) == [isNull |-> FALSE, text |-> t]

Slots == 1..4

\* the four URL templates of probeKnownPlatformPaths
platformUrls(domain) ==
    << <<"https:", "//", "hackerone.com", "/", domain>>,
       <<"https:", "//", "bugcrowd.com", "/", domain>>,
       <<"https:", "//", "yeswehack.com", "/", "programs", "/", domain>>,
       <<"https:", "//", "intigriti.com", "/", "bug-bounty", "/", domain>> >>

NoOutcome == [kind |-> "none", status |-> 0]

IdleSlot == [st |-> "idle", timer |-> FALSE, outcome |-> NoOutcome, value |-> <<>>]

\* apiKeys = {}: no key of either platform is held
NoKeys == [hackerone |-> FALSE, bugcrowd |-> FALSE]

LookupIdle ==
    [pc |-> "idle", domain |-> "", results |-> <<>>, url |-> 0, timer |-> FALSE,
     secTxt |-> NullText, secOut |-> <<>>,
     homepageHtml |-> NullText, homeOut |-> <<>>,
     plat |-> [i \in Slots |-> IdleSlot], platformDirect |-> <<>>,
     storageOk |-> TRUE, manualPrograms |-> <<>>,
     programs |-> <<>>, outcome |-> "pending", result |-> [found |-> FALSE],
     apiResults |-> <<>>, apiIssued |-> <<>>, heuristics |-> FALSE]

\* Mutant: performLookup without its empty check.
performLookupResultNoEmptyCheck(domain, programs) ==
    [message |-> <<"Programs found for", domain>>,
     data |-> [found |-> TRUE, programs |-> programs],
     found |-> TRUE]

\* the return statements of performLookup
performLookupResult(domain, programs) ==
    IF Len(programs) = 0
        THEN [message |-> <<"No program found for", domain>>,
              data |-> [found |-> FALSE],
              found |-> FALSE]
        ELSE [message |-> <<"Programs found for", domain>>,
              data |-> [found |-> TRUE, programs |-> programs],
              found |-> TRUE]

\* Mutant: the Platform-Path probe counts a success status only.
probeHitOkOnly(status) == respOk(status)

\* resp.ok || resp.status === 301 || resp.status === 302
probeHit(status) == respOk(status) \/ status = 301 \/ status = 302

\* probeKnownPlatformPaths: urls.map(async ...) runs every callback up to its
\* await fetch(...), so the four requests are issued and their timers armed
\* before Promise.allSettled is awaited.
probeKnownPlatformPaths_call(l) ==
    [l EXCEPT !.pc = "plat", !.timer = FALSE,
              !.plat = [i \in Slots |->
                           [st |-> "inflight", timer |-> TRUE,
                            outcome |-> NoOutcome, value |-> <<>>]]]

\* lookupBountyPrograms after fetchHtml returned html (a text or null)
afterFetchHtml(l, html) ==
    LET out == IF html.isNull \/ html.text = <<>>
                  THEN <<>>
                  ELSE parseHomepageForBounty(html.text, l.domain)
    IN probeKnownPlatformPaths_call(
           [l EXCEPT !.homepageHtml = html, !.homeOut = out,
                     !.results = l.results \o out])

\* lookupBountyPrograms after fetchSecurityTxt returned txt (a text or null):
\* the records are pushed and fetchHtml issues its request
afterFetchSecurityTxt(l, txt) ==
    LET out == IF txt.isNull \/ txt.text = <<>>
                  THEN <<>>
                  ELSE parseSecurityTxt(txt.text, l.domain)
    IN [l EXCEPT !.secTxt = txt, !.secOut = out, !.results = l.results \o out,
                 !.pc = "home_fetch", !.url = 1, !.timer = TRUE]

\* the urls array of fetchSecurityTxt, in the order the loop visits it
securityTxtUrls(domain) ==
    << <<"https:", "//", domain, "/", ".well-known", "/", "security.txt">>,
       <<"https:", "//", domain, "/", "security.txt">> >>

\* Mutant: fetchSecurityTxt whose catch and non-ok path leave the loop.
fetchSecurityTxt_nextBreak(l) == afterFetchSecurityTxt(l, NullText)

\* fetchSecurityTxt: the loop goes on to the next URL, or returns null
fetchSecurityTxt_next(l) ==
    IF l.url < Len(securityTxtUrls(l.domain))
        THEN [l EXCEPT !.pc = "sec_fetch", !.url = l.url + 1, !.timer = TRUE]
        ELSE afterFetchSecurityTxt(l, NullText)

\* Mutant: fetchHtml without its try/catch; the error reaches the catch of
\* lookupBountyPrograms, which returns dedupePrograms of the records so far.
fetchHtml_nextThrows(l) ==
    LET programs == dedupePrograms(l.results)
    IN [l EXCEPT !.pc = "done", !.programs = programs, !.outcome = "returned",
                 !.result = performLookupResult(l.domain, programs)]

\* fetchHtml: its one URL failed, the loop ends and null is returned
fetchHtml_next(l) == afterFetchHtml(l, NullText)

\* the bodies a site may serve for security.txt
SecBodies ==
    { << <<"Contact:", " ", "https:", "//", "hackerone.com", "/", "a.com">>,
         <<"Expires:", " ", "2027">> >>,
      << <<"Policy:", " ", "HTTPS:", "//", "A.COM", "/", "bounty", "/", " ", "(en)">>,
         <<"Contact:", " ", "mailto:security@a.com">>,
         <<"Hiring:", " ", "https:", "//", "a.com">> >> }

\* the markup a site may serve for its homepage
HtmlBodies ==
    { <<"<a", " ", "href=", "\"", "/", "security", "\"", ">", "responsible disclosure">>,
      <<"<a", " ", "href=", "'", "https:", "//", "hackerone.com", "/", "a.com", "'", ">",
        "<a", " ", "HREF=", "\"", "/", "bounty", "\"", ">">>,
      <<"<a", " ", "href=", "\"", "hackerone.com", "/", "a.com", "\"", ">", "Bug Bounty">> }

\* the manualPrograms lists the settings page may have stored
StoragePool ==
    { <<>>,
      << [domain |-> "a.com", url |-> <<"https:", "//", "a.com", "/", "bounty">>] >>,
      << [domain |-> "hackerone.com", url |-> <<"https:", "//", "hackerone.com", "/", "security">>],
         [domain |-> "a.com", url |-> <<"https:", "//", "a.com", "/">>],
         [domain |-> "a.com", url |-> <<"https:", "//", "hackerone.com", "/", "a.com">>] >> }

\* performLookup(domain) is called: lookupBountyPrograms calls
\* fetchSecurityTxt, which issues its first request and arms the 5 s timer.
performLookup_call ==
    /\ lk.pc = "idle"
    /\ lk' = [lk EXCEPT !.pc = "sec_fetch", !.url = 1, !.timer = TRUE]
    /\ UNCHANGED <<dd, pr, ui, storage, apiKeys, badgeVars, settingsPage>>

\* fetchSecurityTxt: the response headers arrive; clearTimeout; resp.ok
\* leads to await resp.text(), any other status to the next URL.
fetchSecurityTxt_response ==
    /\ lk.pc = "sec_fetch"
    /\ \E status \in Statuses :
          lk' = IF respOk(status)
                   THEN [lk EXCEPT !.pc = "sec_text", !.timer = FALSE]
                   ELSE fetchSecurityTxt_next([lk EXCEPT !.timer = FALSE])
    /\ UNCHANGED <<dd, pr, ui, storage, apiKeys, badgeVars, settingsPage>>

\* fetchSecurityTxt: fetch rejects with a network or CORS error; catch, continue.
fetchSecurityTxt_reject ==
    /\ lk.pc = "sec_fetch"
    /\ lk' = fetchSecurityTxt_next(lk)
    /\ UNCHANGED <<dd, pr, ui, storage, apiKeys, badgeVars, settingsPage>>

\* fetchSecurityTxt: the timer fires, controller.abort() rejects the pending
\* fetch with AbortError; catch, continue.
fetchSecurityTxt_abort ==
    /\ lk.pc = "sec_fetch"
    /\ lk.timer
    /\ lk' = fetchSecurityTxt_next(lk)
    /\ UNCHANGED <<dd, pr, ui, storage, apiKeys, badgeVars, settingsPage>>

\* fetchSecurityTxt: resp.text() resolves and the body is returned.
fetchSecurityTxt_text ==
    /\ lk.pc = "sec_text"
    /\ \E body \in SecBodies : lk' = afterFetchSecurityTxt(lk, Text(body))
    /\ UNCHANGED <<dd, pr, ui, storage, apiKeys, badgeVars, settingsPage>>

\* fetchSecurityTxt: resp.text() rejects (the connection broke); catch, continue.
fetchSecurityTxt_textReject ==
    /\ lk.pc = "sec_text"
    /\ lk' = fetchSecurityTxt_next(lk)
    /\ UNCHANGED <<dd, pr, ui, storage, apiKeys, badgeVars, settingsPage>>

\* fetchHtml: the response headers arrive; clearTimeout.
fetchHtml_response ==
    /\ lk.pc = "home_fetch"
    /\ \E status \in Statuses :
          lk' = IF respOk(status)
                   THEN [lk EXCEPT !.pc = "home_text", !.timer = FALSE]
                   ELSE fetchHtml_next([lk EXCEPT !.timer = FALSE])
    /\ UNCHANGED <<dd, pr, ui, storage, apiKeys, badgeVars, settingsPage>>

fetchHtml_reject ==
    /\ lk.pc = "home_fetch"
    /\ lk' = fetchHtml_next(lk)
    /\ UNCHANGED <<dd, pr, ui, storage, apiKeys, badgeVars, settingsPage>>

fetchHtml_abort ==
    /\ lk.pc = "home_fetch"
    /\ lk.timer
    /\ lk' = fetchHtml_next(lk)
    /\ UNCHANGED <<dd, pr, ui, storage, apiKeys, badgeVars, settingsPage>>

fetchHtml_text ==
    /\ lk.pc = "home_text"
    /\ \E body \in HtmlBodies : lk' = afterFetchHtml(lk, Text(body))
    /\ UNCHANGED <<dd, pr, ui, storage, apiKeys, badgeVars, settingsPage>>

fetchHtml_textReject ==
    /\ lk.pc = "home_text"
    /\ lk' = fetchHtml_next(lk)
    /\ UNCHANGED <<dd, pr, ui, storage, apiKeys, badgeVars, settingsPage>>

\* one callback of urls.map settles with `value` (<<record>> or <<>> for null)
probeSettle(l, i, outcome, value) ==
    [l EXCEPT !.plat[i] = [st |-> "settled", timer |-> FALSE,
                           outcome |-> outcome, value |-> value]]

\* probeKnownPlatformPaths: check i gets its response; clearTimeout; a hit
\* returns makeProgram('Platform', url, domain), anything else null.
probeKnownPlatformPaths_response(i) ==
    /\ lk.pc = "plat"
    /\ lk.plat[i].st = "inflight"
    /\ \E status \in Statuses :
          lk' = probeSettle(lk, i, [kind |-> "response", status |-> status],
                    IF probeHit(status)
                        THEN <<makeProgram("Platform", platformUrls(lk.domain)[i], lk.domain)>>
                        ELSE <<>>)
    /\ UNCHANGED <<dd, pr, ui, storage, apiKeys, badgeVars, settingsPage>>

\* probeKnownPlatformPaths: fetch i rejects with a network error; catch; null.
probeKnownPlatformPaths_reject(i) ==
    /\ lk.pc = "plat"
    /\ lk.plat[i].st = "inflight"
    /\ lk' = probeSettle(lk, i, [kind |-> "neterr", status |-> 0], <<>>)
    /\ UNCHANGED <<dd, pr, ui, storage, apiKeys, badgeVars, settingsPage>>

\* probeKnownPlatformPaths: the 3 s timer of check i fires; AbortError; null.
probeKnownPlatformPaths_abort(i) ==
    /\ lk.pc = "plat"
    /\ lk.plat[i].st = "inflight"
    /\ lk.plat[i].timer
    /\ lk' = probeSettle(lk, i, [kind |-> "timeout", status |-> 0], <<>>)
    /\ UNCHANGED <<dd, pr, ui, storage, apiKeys, badgeVars, settingsPage>>

\* Mutant: the values are collected from the last callback to the first.
RECURSIVE collectSettledBackwards(_, _)
collectSettledBackwards(plat, i) ==
    IF i > 4 THEN <<>> ELSE collectSettledBackwards(plat, i + 1) \o plat[i].value

\* probeResults.forEach: the fulfilled non-null values, in the order of urls
RECURSIVE collectSettled(_, _)
collectSettled(plat, i) ==
    IF i > 4 THEN <<>> ELSE plat[i].value \o collectSettled(plat, i + 1)

\* Promise.allSettled resolves once the four callbacks have settled; the hits
\* are pushed and getManualPrograms issues chrome.storage.sync.get.
probeKnownPlatformPaths_allSettled ==
    /\ lk.pc = "plat"
    /\ \A i \in Slots : lk.plat[i].st = "settled"
    /\ LET platformDirect == collectSettled(lk.plat, 1)
       IN lk' = [lk EXCEPT !.pc = "manual", !.platformDirect = platformDirect,
                           !.results = lk.results \o platformDirect]
    /\ UNCHANGED <<dd, pr, ui, storage, apiKeys, badgeVars, settingsPage>>

\* Mutant: the filter keeps the entries of the other domains.
manualMatchesOtherDomain(manual, k, domain) ==
    LET RECURSIVE loop(_)
        loop(j) ==
            IF j > Len(manual) THEN <<>>
            ELSE (IF manual[j].domain # domain
                     THEN <<makeProgram("Manual", manual[j].url, domain)>>
                     ELSE <<>>)
                 \o loop(j + 1)
    IN loop(k)

\* manual.filter(p => p && p.domain === domain).map(p => makeProgram('Manual', p.url, domain))
RECURSIVE manualMatches(_, _, _)
manualMatches(manual, k, domain) ==
    IF k > Len(manual) THEN <<>>
    ELSE (IF manual[k].domain = domain
             THEN <<makeProgram("Manual", manual[k].url, domain)>>
             ELSE <<>>)
         \o manualMatches(manual, k + 1, domain)

\* getManualPrograms: the storage callback runs (with no result when the read
\* failed: the catch resolves []); lookupBountyPrograms pushes the matches and
\* returns dedupePrograms(results); performLookup builds its result.
getManualPrograms_callback ==
    /\ lk.pc = "manual"
    /\ \E ok \in BOOLEAN :
          LET matches == IF ok THEN manualMatches(storage, 1, lk.domain) ELSE <<>>
              results == lk.results \o matches
              programs == dedupePrograms(results)
          IN lk' = [lk EXCEPT !.pc = "done", !.storageOk = ok,
                              !.manualPrograms = matches, !.results = results,
                              !.programs = programs, !.outcome = "returned",
                              !.result = performLookupResult(lk.domain, programs)]
    /\ UNCHANGED <<dd, pr, ui, storage, apiKeys, badgeVars, settingsPage>>

(***************************************************************************)
(* The settings page (settings.js): addManualProgram.  ui[c] is one call;  *)
(* calls may come from several open settings pages, so the storage         *)
(* callbacks of two calls can interleave.                                  *)
(***************************************************************************)
UiCalls == 1..MaxAdds

\* String.prototype.trim on a token sequence
RECURSIVE trimStart(_)
trimStart(t) == IF t # <<>> /\ Head(t) \in Whitespace THEN trimStart(Tail(t)) ELSE t

RECURSIVE trimEnd(_)
trimEnd(t) ==
    IF t # <<>> /\ t[Len(t)] \in Whitespace THEN trimEnd(SubSeq(t, 1, Len(t) - 1)) ELSE t

trim(t) == trimEnd(trimStart(t))

\* domain.replace(/^https?:\/\//, '').replace(/^www\./, '')
cleanDomain(domain) ==
    LET noScheme == IF Len(domain) >= 2 /\ domain[1] \in {"http:", "https:"} /\ domain[2] = "//"
                       THEN SubSeq(domain, 3, Len(domain)) ELSE domain
    IN IF noScheme # <<>> /\ noScheme[1] = "www." THEN Tail(noScheme) ELSE noScheme

\* the string a token sequence spells
joinTokens(t) ==
    CASE t = <<"a.com">> -> "a.com"
      [] t = <<"hackerone.com">> -> "hackerone.com"
      [] t = <<"www.", "a.com">> -> "www.a.com"
      [] t = <<"HTTPS:", "//", "a.com">> -> "HTTPS://a.com"
      [] t = <<"a.com", "/">> -> "a.com/"
      [] OTHER -> "?"

\* what the user may type into the domain field
DomainInputs ==
    { <<"a.com">>, <<"www.", "a.com">>, <<" ", "https:", "//", "www.", "a.com">>, <<>> }

\* what the user may type into the url field
UrlInputs ==
    { <<"https:", "//", "a.com", "/", "bounty">>,
      <<"https:", "//", "hackerone.com", "/", "a.com", " ">>,
      <<"a.com", "/", "bounty">> }

\* the order String.prototype.localeCompare puts the stored domains in
DomainOrder == <<"?", "a.com", "a.com/", "hackerone.com", "HTTPS://a.com", "www.a.com">>

\* a.domain.localeCompare(b.domain): negative, zero or positive
localeCompare(a, b) ==
    (CHOOSE i \in 1..Len(DomainOrder) : DomainOrder[i] = a)
        - (CHOOSE i \in 1..Len(DomainOrder) : DomainOrder[i] = b)

\* programs.sort((a, b) => a.domain.localeCompare(b.domain)): a stable sort
RECURSIVE sortByDomain(_)
sortByDomain(programs) ==
    IF programs = <<>> THEN <<>>
    ELSE LET k == CHOOSE i \in 1..Len(programs) :
                      \A j \in 1..Len(programs) :
                          \/ localeCompare(programs[i].domain, programs[j].domain) < 0
                          \/ localeCompare(programs[i].domain, programs[j].domain) = 0 /\ i <= j
         IN <<programs[k]>> \o sortByDomain(SubSeq(programs, 1, k - 1)
                                                \o SubSeq(programs, k + 1, Len(programs)))

\* the settings page before loadManualPrograms has run: nothing is displayed
\* and no deleteProgram call is under way
PageIdle ==
    [programList |-> <<>>, pc |-> "idle", index |-> 0, shown |-> <<>>,
     before |-> <<>>, programs |-> <<>>, message |-> ""]

UiIdle ==
    [c \in UiCalls |-> [pc |-> "idle", typed |-> <<>>, domain |-> "", url |-> <<>>,
                        programs |-> <<>>, dateAdded |-> 0, message |-> ""]]

\* programs.some(p => p.domain === cleanDomain && p.url === url)
exists(programs, domain, url) ==
    \E k \in 1..Len(programs) : programs[k].domain = domain /\ programs[k].url = url

\* addManualProgram up to chrome.storage.sync.get: the inputs are trimmed and
\* validated, the domain is cleaned
addManualProgram(c, domainInput, urlInput) ==
    /\ ui[c].pc = "idle"
    /\ LET domain == trim(domainInput)
           url == trim(urlInput)
       IN ui' = [ui EXCEPT ![c] =
              IF domain = <<>> \/ url = <<>>
                  THEN [@ EXCEPT !.pc = "done", !.message = "Please enter both domain and URL"]
              ELSE IF ~URLParses(url)
                  THEN [@ EXCEPT !.pc = "done", !.message = "Please enter a valid URL"]
              ELSE [@ EXCEPT !.pc = "get", !.typed = domain,
                             !.domain = joinTokens(cleanDomain(domain)), !.url = url]]
    /\ UNCHANGED <<dd, pr, lookupVars, badgeVars, settingsPage>>

\* the callback of chrome.storage.sync.get: the duplicate test, the push and
\* the call of chrome.storage.sync.set; dateAdded, new Date() at the push, is
\* kept with the call
addManualProgram_get(c) ==
    /\ ui[c].pc = "get"
    /\ ui' = [ui EXCEPT ![c] =
           IF exists(storage, ui[c].domain, ui[c].url)
               THEN [@ EXCEPT !.pc = "done", !.message = "This program already exists"]
               ELSE [@ EXCEPT !.pc = "set", !.dateAdded = now,
                              !.programs = Append(storage, [domain |-> ui[c].domain,
                                                            url |-> ui[c].url])]]
    /\ UNCHANGED <<dd, pr, lookupVars, badgeVars, settingsPage>>

\* chrome.storage.sync.set stores the list; its callback calls
\* loadManualPrograms, which displays the stored list, and reports success
addManualProgram_set(c) ==
    /\ ui[c].pc = "set"
    /\ storage' = ui[c].programs
    /\ ui' = [ui EXCEPT ![c] = [@ EXCEPT !.pc = "done",
                                         !.message = "Manual program added successfully!"]]
    /\ settingsPage' = [settingsPage EXCEPT !.programList = sortByDomain(storage')]
    /\ UNCHANGED <<dd, pr, lk, apiKeys, badgeVars>>

\* loadManualPrograms: the page is opened or reloaded; the stored list is
\* read, sorted by domain and displayed, each item with a delete button that
\* carries the item's position in the sorted list
loadManualPrograms ==
    /\ settingsPage.pc \in {"idle", "done"}
    /\ settingsPage' = [settingsPage EXCEPT !.programList = sortByDomain(storage)]
    /\ UNCHANGED <<dd, pr, ui, lookupVars, badgeVars>>

\* programs.splice(index, 1) on a list, index counted from 0
splice(programs, index) ==
    IF index + 1 \in 1..Len(programs)
        THEN SubSeq(programs, 1, index) \o SubSeq(programs, index + 2, Len(programs))
        ELSE programs

\* deleteProgram(index) is called by the delete button of item index; after
\* confirm() it calls chrome.storage.sync.get
deleteProgram(index, confirmed) ==
    /\ settingsPage.pc \in {"idle", "done"}
    /\ index + 1 \in 1..Len(settingsPage.programList)
    /\ settingsPage' =
           IF ~confirmed THEN settingsPage
           ELSE [settingsPage EXCEPT !.pc = "get", !.index = index,
                                     !.shown = <<settingsPage.programList[index + 1]>>,
                                     !.message = ""]
    /\ UNCHANGED <<dd, pr, ui, lookupVars, badgeVars>>

\* the callback of chrome.storage.sync.get in deleteProgram: the entry at
\* index is spliced out of the stored list and chrome.storage.sync.set is called
deleteProgram_get ==
    /\ settingsPage.pc = "get"
    /\ settingsPage' = [settingsPage EXCEPT !.pc = "set", !.before = storage,
                                            !.programs = splice(storage, settingsPage.index)]
    /\ UNCHANGED <<dd, pr, ui, lookupVars, badgeVars>>

\* chrome.storage.sync.set stores the spliced list; its callback calls
\* loadManualPrograms and reports the deleted domain
deleteProgram_set ==
    /\ settingsPage.pc = "set"
    /\ storage' = settingsPage.programs
    /\ settingsPage' = [settingsPage EXCEPT
           !.pc = "done",
           !.programList = sortByDomain(storage'),
           !.message = <<"Program for",
                         settingsPage.before[settingsPage.index + 1].domain,
                         "deleted successfully!">>]
    /\ UNCHANGED <<dd, pr, ui, lk, apiKeys, badgeVars>>

(***************************************************************************)
(* Specification SpecParse: each parser applied to every body of at most   *)
(* MaxLines lines of LinePool and to every markup of MarkupPool.           *)
(***************************************************************************)
\* the lines a security.txt may hold
LinePool ==
    { <<"Contact:", " ", "https:", "//", "hackerone.com", "/", "example">>,
      <<"#", " ", "our policy">>,
      <<"Policy:", " ", "https:", "//", "a.com", "/", "policy", " ", "#", " ", "v2">>,
      <<"Contact:", " ", "mailto:security@a.com">>,
      <<"Contact:", " ", "\"", "HTTPS:", "//", "A.COM", "/", "x", "\"">>,
      <<"Hiring:", " ", "http:", "//", "a.com", "/", "o", "'", "brien">>,
      <<"Contact:", " ", "https:", "//", " ">>,
      <<"https:", "//", "a.com", " ", "https:", "//", "hackerone.com", "/", "a.com">> }

\* the homepage markups: anchors with relative and absolute hrefs, with and
\* without a platform name, and texts with and without a keyword
AnchorPool ==
    { <<"<a", " ", "href=", "\"", "/", "security", "/", "bugbounty", "\"", ">">>,
      <<"<a", " ", "href=", "'", "https:", "//", "hackerone.com", "/", "a.com", "'", ">">>,
      <<"<a", " ", "HREF=", "\"", "https:", "//", "a.com", "/", "about", "\"", ">">>,
      <<"<a", " ", "href=", "\"", "bugcrowd.com", "/", "a.com", "\"", ">">>,
      <<"<a", " ", "href=", "\"", "\"", ">">>,
      <<"<p", ">", "responsible disclosure">>,
      <<"<p", ">", "Bug Bounty">>,
      <<"<p", ">", "welcome">> }

RECURSIVE concat(_)
concat(parts) == IF parts = <<>> THEN <<>> ELSE Head(parts) \o concat(Tail(parts))

ParseIdle == [pc |-> "idle", fn |-> "", lines |-> <<>>, domain |-> "", out |-> <<>>]

ParseInputs == UNION { [1..k -> LinePool \cup AnchorPool] : k \in 0..MaxLines }

ParseInit ==
    /\ pr \in [pc : {"call"}, fn : {""}, lines : ParseInputs, domain : Domains, out : {<<>>}]
    /\ dd = [pc |-> "done", list |-> <<>>, out |-> <<>>]
    /\ lk = LookupIdle
    /\ storage = <<>>
    /\ BadgeIdle
    /\ ui = UiIdle
    /\ apiKeys = NoKeys
    /\ settingsPage = PageIdle

\* parseSecurityTxt(txt, domain) of background.js, txt being the lines
parseSecurityTxt_call ==
    /\ pr.pc = "call"
    /\ pr' = [pr EXCEPT !.pc = "done", !.fn = "parseSecurityTxt",
                        !.out = parseSecurityTxt(pr.lines, pr.domain)]
    /\ UNCHANGED <<dd, ui, lookupVars, badgeVars, settingsPage>>

\* parseSecurityTxt(txt, domain) of the simplified background.js
simplified_parseSecurityTxt_call ==
    /\ pr.pc = "call"
    /\ pr' = [pr EXCEPT !.pc = "done", !.fn = "simplified_parseSecurityTxt",
                        !.out = simplified_parseSecurityTxt(pr.lines, pr.domain)]
    /\ UNCHANGED <<dd, ui, lookupVars, badgeVars, settingsPage>>

\* parseHomepageForBounty(html, domain), html being the lines put together
parseHomepageForBounty_call ==
    /\ pr.pc = "call"
    /\ pr' = [pr EXCEPT !.pc = "done", !.fn = "parseHomepageForBounty",
                        !.out = parseHomepageForBounty(concat(pr.lines), pr.domain)]
    /\ UNCHANGED <<dd, ui, lookupVars, badgeVars, settingsPage>>

ParseNext ==
    \/ parseSecurityTxt_call
    \/ simplified_parseSecurityTxt_call
    \/ parseHomepageForBounty_call

SpecParse == ParseInit /\ [][ParseNext]_vars

(***************************************************************************)
(* Specification SpecManual: MaxAdds calls of addManualProgram against     *)
(* every stored list.                                                      *)
(***************************************************************************)
ManualInit ==
    /\ ui = UiIdle
    /\ apiKeys = NoKeys
    /\ settingsPage = PageIdle
    /\ storage \in StoragePool
    /\ dd = [pc |-> "done", list |-> <<>>, out |-> <<>>]
    /\ pr = ParseIdle
    /\ lk = LookupIdle
    /\ BadgeIdle

ManualNext ==
    \/ \E c \in UiCalls, d \in DomainInputs, u \in UrlInputs : addManualProgram(c, d, u)
    \/ \E c \in UiCalls : addManualProgram_get(c)
    \/ \E c \in UiCalls : addManualProgram_set(c)

SpecManual == ManualInit /\ [][ManualNext]_vars

(***************************************************************************)
(* Specification SpecDelete: one settings page that displays the stored    *)
(* list and deletes from it, for every order the list may be stored in.    *)
(***************************************************************************)
\* the entries the stored lists are made of
EntryPool ==
    { [domain |-> "a.com", url |-> <<"https:", "//", "a.com", "/", "bounty">>],
      [domain |-> "hackerone.com", url |-> <<"https:", "//", "hackerone.com", "/", "security">>],
      [domain |-> "a.com", url |-> <<"https:", "//", "hackerone.com", "/", "a.com">>] }

\* every list of at most MaxList different entries, in every order
StoredLists ==
    { l \in UNION { [1..k -> EntryPool] : k \in 0..MaxList } :
          \A i, j \in 1..Len(l) : i # j => l[i] # l[j] }

DeleteInit ==
    /\ storage \in StoredLists
    /\ settingsPage = PageIdle
    /\ apiKeys = NoKeys
    /\ ui = UiIdle
    /\ dd = [pc |-> "done", list |-> <<>>, out |-> <<>>]
    /\ pr = ParseIdle
    /\ lk = LookupIdle
    /\ BadgeIdle

DeleteNext ==
    \/ loadManualPrograms
    \/ \E index \in 0..(MaxList - 1), confirmed \in BOOLEAN : deleteProgram(index, confirmed)
    \/ deleteProgram_get
    \/ deleteProgram_set

SpecDelete == DeleteInit /\ [][DeleteNext]_vars

(***************************************************************************)
(* Specification SpecLookup: one performLookup for a domain, against every *)
(* behaviour of the network and every stored manualPrograms list.          *)
(***************************************************************************)
LookupInit ==
    /\ dd = [pc |-> "done", list |-> <<>>, out |-> <<>>]
    /\ \E d \in Domains : lk = [LookupIdle EXCEPT !.domain = d]
    /\ storage \in StoragePool
    /\ BadgeIdle
    /\ pr = ParseIdle
    /\ ui = UiIdle
    /\ apiKeys = NoKeys
    /\ settingsPage = PageIdle

LookupNext ==
    \/ performLookup_call
    \/ fetchSecurityTxt_response
    \/ fetchSecurityTxt_reject
    \/ fetchSecurityTxt_abort
    \/ fetchSecurityTxt_text
    \/ fetchSecurityTxt_textReject
    \/ fetchHtml_response
    \/ fetchHtml_reject
    \/ fetchHtml_abort
    \/ fetchHtml_text
    \/ fetchHtml_textReject
    \/ \E i \in Slots : probeKnownPlatformPaths_response(i)
    \/ \E i \in Slots : probeKnownPlatformPaths_reject(i)
    \/ \E i \in Slots : probeKnownPlatformPaths_abort(i)
    \/ probeKnownPlatformPaths_allSettled
    \/ getManualPrograms_callback

SpecLookup == LookupInit /\ [][LookupNext]_vars

(***************************************************************************)
(* Specification SpecLookupFair: SpecLookup in which every armed abort     *)
(* timer fires, Promise.allSettled and the storage callback are delivered, *)
(* and nothing is assumed about what the endpoints send.                   *)
(***************************************************************************)
LookupFairness ==
    /\ WF_vars(performLookup_call)
    /\ WF_vars(fetchSecurityTxt_abort)
    /\ WF_vars(fetchHtml_abort)
    /\ \A i \in Slots : WF_vars(probeKnownPlatformPaths_abort(i))
    /\ WF_vars(probeKnownPlatformPaths_allSettled)
    /\ WF_vars(getManualPrograms_callback)

SpecLookupFair == LookupInit /\ [][LookupNext]_vars /\ LookupFairness

(***************************************************************************)
(* The background script kept in settings.js (the API-key variant): its    *)
(* probeKnownPlatformPaths awaits each fetch inside a for loop and arms no *)
(* timer.  lk.plat[i].st = "idle" is a check whose request is not issued.  *)
(***************************************************************************)
\* the loop reaches urls[i]: its request is issued and awaited
settings_probeIssue(l, i) ==
    [l EXCEPT !.pc = "plat",
              !.plat[i] = [st |-> "inflight", timer |-> FALSE,
                           outcome |-> NoOutcome, value |-> <<>>]]

\* the loop goes on after check i: the next request, or return results
settings_probeNext(l, i) ==
    IF i < 4 THEN settings_probeIssue(l, i + 1)
    ELSE LET platformDirect == collectSettled(l.plat, 1)
         IN [l EXCEPT !.pc = "manual", !.platformDirect = platformDirect,
                      !.results = l.results \o platformDirect]

\* the keys an unlockKeys message may carry
KeySets == [hackerone : BOOLEAN, bugcrowd : BOOLEAN]

\* the record tryHackerOneApi or tryBugcrowdApi returns on a hit
apiProgram(platform, domain) ==
    [platform |-> platform, link |-> <<"https:", "//", "hackerone.com", "/", domain>>,
     scope |-> domain, description |-> "", rewards |-> ""]

\* onMessage 'unlockKeys': apiKeys = msg.keys || {}
settings_unlockKeys(keys) ==
    /\ apiKeys # keys
    /\ apiKeys' = keys
    /\ UNCHANGED <<dd, pr, ui, lk, storage, badgeVars, settingsPage>>

\* onMessage 'lockKeys': apiKeys = {}
settings_lockKeys ==
    /\ apiKeys # NoKeys
    /\ apiKeys' = NoKeys
    /\ UNCHANGED <<dd, pr, ui, lk, storage, badgeVars, settingsPage>>

\* runLookupForActiveTab reaches the Bugcrowd pre-check: the request is made
\* if a key is held now, else the pre-check is over
settings_bugcrowdOrNext(l) ==
    IF apiKeys.bugcrowd
        THEN [l EXCEPT !.pc = "api_b",
                       !.apiIssued = Append(l.apiIssued, "Bugcrowd")]
        ELSE [l EXCEPT !.pc = "api_end"]

\* Mutant: runLookupForActiveTab that goes on to the heuristics with the API
\* hits among the results.
settings_afterApiMerge(l) ==
    [l EXCEPT !.pc = "sec_html", !.heuristics = TRUE, !.results = l.apiResults]

\* if (apiResults.length) return them; else lookupBountyPrograms(domain)
settings_afterApi(l) ==
    IF Len(l.apiResults) > 0
        THEN [l EXCEPT !.pc = "done", !.outcome = "returned",
                       !.result = [message |-> <<"Programs found for", l.domain, "(via platform APIs)">>,
                                   data |-> [found |-> TRUE, programs |-> l.apiResults]]]
        ELSE [l EXCEPT !.pc = "sec_html", !.heuristics = TRUE]

\* runLookupForActiveTab of settings.js once the domain is known: the
\* HackerOne pre-check if a key is held, else the next one
settings_runLookupForActiveTab_call ==
    /\ lk.pc = "rl_call"
    /\ lk' = IF apiKeys.hackerone
                THEN [lk EXCEPT !.pc = "api_h",
                                !.apiIssued = Append(lk.apiIssued, "HackerOne")]
                ELSE settings_bugcrowdOrNext(lk)
    /\ UNCHANGED <<dd, pr, ui, storage, apiKeys, badgeVars, settingsPage>>

\* tryHackerOneApi returns: a program or null
settings_tryHackerOneApi_return ==
    /\ lk.pc = "api_h"
    /\ \E hit \in BOOLEAN :
          lk' = settings_bugcrowdOrNext(
                    [lk EXCEPT !.apiResults =
                        IF hit THEN Append(@, apiProgram("HackerOne", lk.domain)) ELSE @])
    /\ UNCHANGED <<dd, pr, ui, storage, apiKeys, badgeVars, settingsPage>>

\* tryBugcrowdApi returns: a program or null
settings_tryBugcrowdApi_return ==
    /\ lk.pc = "api_b"
    /\ \E hit \in BOOLEAN :
          lk' = [lk EXCEPT !.pc = "api_end",
                           !.apiResults =
                               IF hit THEN Append(@, apiProgram("Bugcrowd", lk.domain)) ELSE @]
    /\ UNCHANGED <<dd, pr, ui, storage, apiKeys, badgeVars, settingsPage>>

\* the pre-checks are over: the API answer, or the heuristics
settings_runLookupForActiveTab_afterApi ==
    /\ lk.pc = "api_end"
    /\ lk' = settings_afterApi(lk)
    /\ UNCHANGED <<dd, pr, ui, storage, apiKeys, badgeVars, settingsPage>>

\* lookupBountyPrograms of settings.js before the Platform-Path probe: the
\* Security-Policy and Homepage probes have added their records
settings_lookupBountyPrograms_probes ==
    /\ lk.pc = "sec_html"
    /\ \E found \in { <<>>, <<makeProgram("Security.txt",
                                 <<"https:", "//", lk.domain, "/", "bounty">>, lk.domain)>> } :
          lk' = [lk EXCEPT !.pc = "plat_call", !.results = lk.results \o found]
    /\ UNCHANGED <<dd, pr, ui, storage, apiKeys, badgeVars, settingsPage>>

\* lookupBountyPrograms calls probeKnownPlatformPaths: the first request
settings_probeKnownPlatformPaths_call ==
    /\ lk.pc = "plat_call"
    /\ lk' = settings_probeIssue(lk, 1)
    /\ UNCHANGED <<dd, pr, ui, storage, apiKeys, badgeVars, settingsPage>>

\* the awaited fetch resolves: a hit is pushed, then the loop goes on
settings_probeKnownPlatformPaths_response(i) ==
    /\ lk.pc = "plat"
    /\ lk.plat[i].st = "inflight"
    /\ \E status \in Statuses :
          lk' = settings_probeNext(
                    probeSettle(lk, i, [kind |-> "response", status |-> status],
                        IF probeHit(status)
                            THEN <<makeProgram("Platform", platformUrls(lk.domain)[i], lk.domain)>>
                            ELSE <<>>),
                    i)
    /\ UNCHANGED <<dd, pr, ui, storage, apiKeys, badgeVars, settingsPage>>

\* the awaited fetch rejects: catch, continue
settings_probeKnownPlatformPaths_reject(i) ==
    /\ lk.pc = "plat"
    /\ lk.plat[i].st = "inflight"
    /\ lk' = settings_probeNext(
                 probeSettle(lk, i, [kind |-> "neterr", status |-> 0], <<>>), i)
    /\ UNCHANGED <<dd, pr, ui, storage, apiKeys, badgeVars, settingsPage>>

\* the storage callback of getManualPrograms in settings.js, then
\* dedupePrograms and the response of runLookupForActiveTab
settings_getManualPrograms_callback ==
    /\ lk.pc = "manual"
    /\ LET matches == manualMatches(storage, 1, lk.domain)
           results == lk.results \o matches
           programs == dedupePrograms(results)
       IN lk' = [lk EXCEPT !.pc = "done", !.manualPrograms = matches,
                           !.results = results, !.programs = programs,
                           !.outcome = "returned",
                           !.result =
                               IF Len(programs) = 0
                                   THEN [message |-> <<"No program found for", lk.domain>>,
                                         data |-> [found |-> FALSE]]
                                   ELSE [message |-> <<"Programs found for", lk.domain>>,
                                         data |-> [found |-> TRUE, programs |-> programs]]]
    /\ UNCHANGED <<dd, pr, ui, storage, apiKeys, badgeVars, settingsPage>>

(***************************************************************************)
(* Specification SpecSettings: runLookupForActiveTab of the settings.js    *)
(* variant for a known domain, with unlockKeys and lockKeys messages        *)
(* arriving at any moment.                                                 *)
(***************************************************************************)
SettingsInit ==
    /\ dd = [pc |-> "done", list |-> <<>>, out |-> <<>>]
    /\ \E d \in Domains : lk = [LookupIdle EXCEPT !.pc = "rl_call", !.domain = d]
    /\ storage \in StoragePool
    /\ BadgeIdle
    /\ pr = ParseIdle
    /\ ui = UiIdle
    /\ apiKeys = NoKeys
    /\ settingsPage = PageIdle

SettingsNext ==
    \/ \E keys \in KeySets : settings_unlockKeys(keys)
    \/ settings_lockKeys
    \/ settings_runLookupForActiveTab_call
    \/ settings_tryHackerOneApi_return
    \/ settings_tryBugcrowdApi_return
    \/ settings_runLookupForActiveTab_afterApi
    \/ settings_lookupBountyPrograms_probes
    \/ settings_probeKnownPlatformPaths_call
    \/ \E i \in Slots : settings_probeKnownPlatformPaths_response(i)
    \/ \E i \in Slots : settings_probeKnownPlatformPaths_reject(i)
    \/ settings_getManualPrograms_callback

SpecSettings == SettingsInit /\ [][SettingsNext]_vars

(***************************************************************************)
(* The badge controller (background.js): the tab listeners, clearBadge,    *)
(* checkDomainAndUpdateBadge and updateBadge, the domain cache and its     *)
(* expiry timers.  checks[s] is one invocation of a listener or of         *)
(* checkDomainAndUpdateBadge, pc naming the browser call it awaits.        *)
(***************************************************************************)
\* the slot a new invocation takes: the first one that holds no running one
SlotAvailable(s) == checks[s].pc \in {"free", "done", "rl_done"}
NewSlot == CHOOSE s \in CheckSlots : SlotAvailable(s) /\ \A r \in CheckSlots : SlotAvailable(r) => s <= r

\* the manualPrograms list the service worker runs with: one entry, for a.com
ManualStore == <<[domain |-> "a.com", url |-> <<"https:", "//", "a.com", "/", "bounty">>]>>

\* the network probe outputs a lookup may collect for a domain
NetPool(domain) ==
    { <<>>, <<makeProgram("Platform", platformUrls(domain)[1], domain)>> }

\* Mutant: no removal is scheduled when an entry is written.
scheduleNothing(pending, domain) == pending

\* setTimeout(() => domainCache.delete(domain), 10 * 60 * 1000)
scheduleRemoval(pending, domain) == pending \cup {[domain |-> domain, due |-> now + TTL]}

\* updateBadge(found, tabId) is called: it awaits chrome.tabs.get(tabId)
updateBadge_call(c, found) ==
    [c EXCEPT !.pc = "ub_get", !.found = found,
              !.attemptedFalse = c.attemptedFalse \/ ~found]

\* checkDomainAndUpdateBadge on a cache miss: await performLookup(domain)
startLookup(c) == [c EXCEPT !.pc = "lookup", !.lookedUp = TRUE]

\* Mutant: checkDomainAndUpdateBadge without its cache test.
checkUncached(c) == startLookup(c)

\* checkDomainAndUpdateBadge on a cache hit:
\* await updateBadge(cachedResult.found, tabId); return
checkCached(c) == updateBadge_call(c, domainCache[c.domain].found)

\* an invocation ends; the slot keeps what happened in it
finish(c) == [c EXCEPT !.pc = "done"]

\* Mutant: the catch of checkDomainAndUpdateBadge without the 'No tab with id'
\* test: every caught error leads to updateBadge(false).
checkCatchAlwaysBadge(c, err) ==
    updateBadge_call([c EXCEPT !.raised = err, !.caught = err], FALSE)

\* the catch of checkDomainAndUpdateBadge: 'No tab with id' returns, any
\* other error is logged and updateBadge(false) is tried
checkCatch(c, err) ==
    IF err = "notab"
        THEN finish([c EXCEPT !.raised = err, !.caught = err])
        ELSE updateBadge_call([c EXCEPT !.raised = err, !.caught = err], FALSE)

\* Mutant: the catch of updateBadge throws the error on; a call from the
\* try of checkDomainAndUpdateBadge lands in its catch, a call from that
\* catch in the inner catch.
updateBadgeCatchRethrow(c, err) ==
    LET r == [c EXCEPT !.raised = err, !.rejected = "updateBadge"]
    IN IF c.caught = "none" THEN checkCatch(r, err) ELSE finish(r)

\* the catch of updateBadge: the error is absorbed and updateBadge returns;
\* both of its callers return right after it
updateBadgeCatch(c, err) == finish([c EXCEPT !.raised = err])

\* clearBadge(tabId): chrome.action.setBadgeText({ text: '', tabId }) settles
\* with outcome o; .catch(() => {}) drops a rejection and the badge stays
clearBadge(b, t, o) == IF o = "ok" THEN [b EXCEPT ![t].text = ""] ELSE b

\* how a browser call on tab t settles: the tab is gone, or the call is
\* carried out, or it fails for another reason
CallOutcomes(t) == IF tabs[t].open THEN {"ok", "other"} ELSE {"notab"}

\* checkDomainAndUpdateBadge(domain, tabId) is called in slot s: it runs up to
\* await chrome.tabs.get(tabId)
checkDomainAndUpdateBadge_call(s, domain, t) ==
    [checks EXCEPT ![s] = [FreeSlot EXCEPT !.pc = "get", !.domain = domain, !.tabId = t]]

\* Mutant: the onUpdated listener without its tab.active test.
onUpdated_handlesAnyTab(tab) == tab.open

\* the test of the onUpdated listener on a tab whose load is complete:
\* tab && tab.url && tab.active
onUpdated_handles(tab) == tab.open /\ tab.active

\* chrome.tabs.onUpdated: tab t finished loading url.  Only the active tab is
\* handled: a lookup for a web page, clearBadge for an internal page.
onUpdated(t, url) ==
    /\ events < MaxEvents
    /\ tabs[t].open
    /\ tabs' = [tabs EXCEPT ![t].url = url]
    /\ events' = events + 1
    /\ IF ~onUpdated_handles(tabs[t])
          THEN UNCHANGED <<checks, badge>>
          ELSE IF URLParses(url) /\ URLhostname(url) # "" /\ ~isExtensionUrl(URLhref(url))
                  THEN /\ \E s \in CheckSlots : SlotAvailable(s)
                       /\ checks' = checkDomainAndUpdateBadge_call(NewSlot, URLhostname(url), t)
                       /\ UNCHANGED badge
                  ELSE /\ \E o \in CallOutcomes(t) : badge' = clearBadge(badge, t, o)
                       /\ UNCHANGED checks
    /\ UNCHANGED <<domainCache, timers, now, dd, pr, ui, lk, storage, apiKeys, settingsPage>>

\* chrome.tabs.onActivated: tab t becomes the active tab; the listener calls
\* chrome.tabs.get(tabId) and goes on in its then-callback.
onActivated(t) ==
    /\ events < MaxEvents
    /\ tabs[t].open /\ ~tabs[t].active
    /\ \E s \in CheckSlots : SlotAvailable(s)
    /\ tabs' = [u \in Tabs |-> [tabs[u] EXCEPT !.active = (u = t)]]
    /\ events' = events + 1
    /\ checks' = [checks EXCEPT ![NewSlot] = [FreeSlot EXCEPT !.pc = "act_get", !.tabId = t]]
    /\ UNCHANGED <<badge, domainCache, timers, now, dd, pr, ui, lk, storage, apiKeys, settingsPage>>

\* the then-callback of onActivated (or its catch when tabs.get rejected)
onActivated_then(s) ==
    /\ checks[s].pc = "act_get"
    /\ LET t == checks[s].tabId
           url == tabs[t].url
       IN \E o \in CallOutcomes(t) :
             IF o # "ok"
                THEN /\ checks' = [checks EXCEPT ![s] = FreeSlot]
                     /\ UNCHANGED badge
                ELSE IF URLParses(url) /\ URLhostname(url) # "" /\ ~isExtensionUrl(url)
                        THEN /\ checks' = checkDomainAndUpdateBadge_call(s, URLhostname(url), t)
                             /\ UNCHANGED badge
                        ELSE /\ \E oc \in CallOutcomes(t) : badge' = clearBadge(badge, t, oc)
                             /\ checks' = [checks EXCEPT ![s] = FreeSlot]
    /\ UNCHANGED <<tabs, events, domainCache, timers, now, dd, pr, ui, lk, storage, apiKeys, settingsPage>>

\* a tab is closed; the onRemoved listener does nothing
onRemoved(t) ==
    /\ events < MaxEvents
    /\ tabs[t].open
    /\ tabs' = [tabs EXCEPT ![t].open = FALSE, ![t].active = FALSE]
    /\ events' = events + 1
    /\ UNCHANGED <<badge, checks, domainCache, timers, now, dd, pr, ui, lk, storage, apiKeys, settingsPage>>

\* checkDomainAndUpdateBadge: chrome.tabs.get settles.  On success the cache
\* is consulted: a hit calls updateBadge(cachedResult.found), a miss starts
\* performLookup.
checkDomainAndUpdateBadge_tabsGet(s) ==
    /\ checks[s].pc = "get"
    /\ LET c == checks[s]
       IN \E o \in CallOutcomes(c.tabId) :
             checks' = [checks EXCEPT ![s] =
                 IF o # "ok" THEN checkCatch(c, o)
                 ELSE IF domainCache[c.domain].has
                     THEN checkCached(c)
                     ELSE startLookup(c)]
    /\ UNCHANGED <<tabs, badge, events, domainCache, timers, now, dd, pr, ui, lk, storage, apiKeys, settingsPage>>

\* checkDomainAndUpdateBadge: performLookup(domain) returns.  The result is
\* cached, the removal is scheduled and updateBadge(hasPrograms) is called.
checkDomainAndUpdateBadge_lookupDone(s) ==
    /\ checks[s].pc = "lookup"
    /\ LET c == checks[s]
       IN \E net \in NetPool(c.domain), ok \in BOOLEAN :
             LET manual == IF ok THEN manualMatches(storage, 1, c.domain) ELSE <<>>
                 result == performLookupResult(c.domain, dedupePrograms(net \o manual))
                 hasPrograms == /\ result.data.found
                                /\ "programs" \in DOMAIN result.data
                                /\ Len(result.data.programs) > 0
             IN /\ domainCache' = [domainCache EXCEPT ![c.domain] =
                        [has |-> TRUE, found |-> result.found, timestamp |-> now]]
                /\ timers' = scheduleRemoval(timers, c.domain)
                /\ checks' = [checks EXCEPT ![s] = updateBadge_call(c, hasPrograms)]
    /\ UNCHANGED <<tabs, badge, events, now, dd, pr, ui, lk, storage, apiKeys, settingsPage>>

\* updateBadge: await chrome.tabs.get(tabId) settles; setBadgeText is called
updateBadge_tabsGet(s) ==
    /\ checks[s].pc = "ub_get"
    /\ LET c == checks[s]
       IN \E o \in CallOutcomes(c.tabId) :
             checks' = [checks EXCEPT ![s] =
                 IF o # "ok" THEN updateBadgeCatch(c, o) ELSE [c EXCEPT !.pc = "ub_text"]]
    /\ UNCHANGED <<tabs, badge, events, domainCache, timers, now, dd, pr, ui, lk, storage, apiKeys, settingsPage>>

\* updateBadge: setBadgeText settles; setBadgeBackgroundColor is called
updateBadge_setBadgeText(s) ==
    /\ checks[s].pc = "ub_text"
    /\ LET c == checks[s]
       IN \E o \in CallOutcomes(c.tabId) :
             IF o # "ok"
                THEN /\ checks' = [checks EXCEPT ![s] = updateBadgeCatch(c, o)]
                     /\ UNCHANGED badge
                ELSE /\ badge' = [badge EXCEPT ![c.tabId].text =
                                     IF c.found THEN TextFound ELSE TextNotFound]
                     /\ checks' = [checks EXCEPT ![s] =
                                      [c EXCEPT !.pc = "ub_color", !.touched = TRUE]]
    /\ UNCHANGED <<tabs, events, domainCache, timers, now, dd, pr, ui, lk, storage, apiKeys, settingsPage>>

\* updateBadge: setBadgeBackgroundColor settles; setTitle is called
updateBadge_setBadgeBackgroundColor(s) ==
    /\ checks[s].pc = "ub_color"
    /\ LET c == checks[s]
       IN \E o \in CallOutcomes(c.tabId) :
             IF o # "ok"
                THEN /\ checks' = [checks EXCEPT ![s] = updateBadgeCatch(c, o)]
                     /\ UNCHANGED badge
                ELSE /\ badge' = [badge EXCEPT ![c.tabId].color =
                                     IF c.found THEN ColorFound ELSE ColorNotFound]
                     /\ checks' = [checks EXCEPT ![s] = [c EXCEPT !.pc = "ub_title"]]
    /\ UNCHANGED <<tabs, events, domainCache, timers, now, dd, pr, ui, lk, storage, apiKeys, settingsPage>>

\* updateBadge: setTitle settles; updateBadge and its caller return
updateBadge_setTitle(s) ==
    /\ checks[s].pc = "ub_title"
    /\ LET c == checks[s]
       IN \E o \in CallOutcomes(c.tabId) :
             IF o # "ok"
                THEN /\ checks' = [checks EXCEPT ![s] = updateBadgeCatch(c, o)]
                     /\ UNCHANGED badge
                ELSE /\ badge' = [badge EXCEPT ![c.tabId].title =
                                     IF c.found THEN TitleFound ELSE TitleNotFound]
                     /\ checks' = [checks EXCEPT ![s] = finish(c)]
    /\ UNCHANGED <<tabs, events, domainCache, timers, now, dd, pr, ui, lk, storage, apiKeys, settingsPage>>

(***************************************************************************)
(* The popup's runLookup message: the onMessage listener,                  *)
(* runLookupForActiveTab and getActiveTabDomain.  The request runs in a    *)
(* slot of checks; response holds what sendResponse was given.             *)
(***************************************************************************)
\* the open tabs chrome.tabs.query({ active: true, ... }) resolves with
ActiveTabs == { t \in Tabs : tabs[t].open /\ tabs[t].active }

\* Mutant: getActiveTabDomain that returns an empty hostname where the
\* source throws.
getActiveTabDomainNoThrow(queryOk, found) ==
    IF queryOk /\ found # {} /\ URLParses(tabs[CHOOSE t \in found : TRUE].url)
        THEN [ok |-> TRUE, domain |-> URLhostname(tabs[CHOOSE t \in found : TRUE].url),
              tabId |-> CHOOSE t \in found : TRUE]
        ELSE [ok |-> TRUE, domain |-> "", tabId |-> 0]

\* getActiveTabDomain once chrome.tabs.query has settled: the hostname of
\* tabs[0].url, or the error it throws (query rejected, no tab, no url, a url
\* that new URL rejects)
getActiveTabDomain(queryOk, found) ==
    IF queryOk /\ found # {} /\ URLParses(tabs[CHOOSE t \in found : TRUE].url)
        THEN [ok |-> TRUE, domain |-> URLhostname(tabs[CHOOSE t \in found : TRUE].url),
              tabId |-> CHOOSE t \in found : TRUE]
        ELSE [ok |-> FALSE, domain |-> "", tabId |-> 0]

\* Mutant: runLookupForActiveTab that answers from domainCache when it can.
runLookupFromCache(c, domain, t) ==
    IF domain \in CacheKeys /\ domainCache[domain].has
        THEN [c EXCEPT !.pc = "rl_done", !.domain = domain, !.tabId = t,
                       !.response = <<[message |-> <<"cached", domain>>,
                                       data |-> [found |-> domainCache[domain].found],
                                       found |-> domainCache[domain].found]>>]
        ELSE [c EXCEPT !.pc = "rl_lookup", !.domain = domain, !.tabId = t, !.lookedUp = TRUE]

\* runLookupForActiveTab with the domain in hand: return await performLookup(domain)
runLookupWithDomain(c, domain, t) ==
    [c EXCEPT !.pc = "rl_lookup", !.domain = domain, !.tabId = t, !.lookedUp = TRUE]

\* Mutant: a listener that drops what runLookupForActiveTab resolves with.
sendResponseNever(c, res) == [c EXCEPT !.pc = "rl_done"]

\* runLookupForActiveTab().then(res => sendResponse(res)): the request of
\* slot c is answered with res
sendResponse(c, res) == [c EXCEPT !.pc = "rl_done", !.response = Append(c.response, res)]

\* the catch of runLookupForActiveTab: return { error: err.message }
runLookupError(c) == sendResponse(c, [error |-> "Unable to get active tab domain"])

\* chrome.runtime.onMessage with another action, or none: the listener
\* returns false and nothing is started
onMessage_other ==
    /\ events < MaxEvents
    /\ events' = events + 1
    /\ UNCHANGED <<tabs, badge, checks, domainCache, timers, now, dd, pr, ui, lk, storage, apiKeys, settingsPage>>

\* chrome.runtime.onMessage with action 'runLookup': runLookupForActiveTab is
\* called and awaits chrome.tabs.query inside getActiveTabDomain
onMessage_runLookup ==
    /\ events < MaxEvents
    /\ \E s \in CheckSlots : SlotAvailable(s)
    /\ events' = events + 1
    /\ checks' = [checks EXCEPT ![NewSlot] = [FreeSlot EXCEPT !.pc = "rl_query"]]
    /\ UNCHANGED <<tabs, badge, domainCache, timers, now, dd, pr, ui, lk, storage, apiKeys, settingsPage>>

\* chrome.tabs.query settles: the lookup starts, or the error is the response
runLookupForActiveTab_query(s) ==
    /\ checks[s].pc = "rl_query"
    /\ \E queryOk \in BOOLEAN :
          LET r == getActiveTabDomain(queryOk, ActiveTabs)
          IN checks' = [checks EXCEPT ![s] =
                 IF r.ok THEN runLookupWithDomain(checks[s], r.domain, r.tabId)
                         ELSE runLookupError(checks[s])]
    /\ UNCHANGED <<tabs, badge, events, domainCache, timers, now, dd, pr, ui, lk, storage, apiKeys, settingsPage>>

\* performLookup(domain) returns and its result is given to sendResponse
runLookupForActiveTab_lookupDone(s) ==
    /\ checks[s].pc = "rl_lookup"
    /\ LET c == checks[s]
       IN \E net \in NetPool(c.domain), ok \in BOOLEAN :
             LET manual == IF ok THEN manualMatches(storage, 1, c.domain) ELSE <<>>
                 result == performLookupResult(c.domain, dedupePrograms(net \o manual))
             IN checks' = [checks EXCEPT ![s] =
                    sendResponse([c EXCEPT !.found = result.found], result)]
    /\ UNCHANGED <<tabs, badge, events, domainCache, timers, now, dd, pr, ui, lk, storage, apiKeys, settingsPage>>

\* the callback of setTimeout(() => domainCache.delete(domain), 10 * 60 * 1000)
cacheTimer(tm) ==
    /\ tm \in timers
    /\ tm.due <= now
    /\ domainCache' = [domainCache EXCEPT ![tm.domain] = NoEntry]
    /\ timers' = timers \ {tm}
    /\ UNCHANGED <<tabs, badge, events, checks, now, dd, pr, ui, lk, storage, apiKeys, settingsPage>>

\* time passes, TickStep minutes at most and never past a timer that is due;
\* from MaxTime on the clock only moves to the pending timers
Tick ==
    /\ now < MaxTime \/ timers # {}
    /\ \A tm \in timers : tm.due > now
    /\ LET next == (IF now < MaxTime THEN {now + TickStep, MaxTime} ELSE {})
                       \cup { tm.due : tm \in timers }
       IN now' = CHOOSE n \in next : \A m \in next : n <= m
    /\ UNCHANGED <<tabs, badge, events, checks, domainCache, timers, dd, pr, ui, lk, storage, apiKeys, settingsPage>>

(***************************************************************************)
(* Specification Spec: the service worker of background.js with NumTabs    *)
(* tabs, all open on about:blank, tab 1 active.                            *)
(***************************************************************************)
Init ==
    /\ BadgeIdle
    /\ pr = ParseIdle
    /\ ui = UiIdle
    /\ apiKeys = NoKeys
    /\ settingsPage = PageIdle
    /\ dd = [pc |-> "done", list |-> <<>>, out |-> <<>>]
    /\ lk = LookupIdle
    /\ storage = ManualStore

Next ==
    \/ \E t \in Tabs, url \in TabUrlPool : onUpdated(t, url)
    \/ \E t \in Tabs : onActivated(t)
    \/ \E s \in CheckSlots : onActivated_then(s)
    \/ \E t \in Tabs : onRemoved(t)
    \/ \E s \in CheckSlots : checkDomainAndUpdateBadge_tabsGet(s)
    \/ \E s \in CheckSlots : checkDomainAndUpdateBadge_lookupDone(s)
    \/ \E s \in CheckSlots : updateBadge_tabsGet(s)
    \/ \E s \in CheckSlots : updateBadge_setBadgeText(s)
    \/ \E s \in CheckSlots : updateBadge_setBadgeBackgroundColor(s)
    \/ \E s \in CheckSlots : updateBadge_setTitle(s)
    \/ onMessage_runLookup
    \/ onMessage_other
    \/ \E s \in CheckSlots : runLookupForActiveTab_query(s)
    \/ \E s \in CheckSlots : runLookupForActiveTab_lookupDone(s)
    \/ \E tm \in timers : cacheTimer(tm)
    \/ Tick

Spec == Init /\ [][Next]_vars

(***************************************************************************)
(* Specification SpecFair: Spec in which time passes and every scheduled   *)
(* removal is run when it is due.                                          *)
(***************************************************************************)
(* Specification SpecAdd: the badge checks the onUpdated listener starts  *)
(* for the web pages tab 1 loads, while a settings page adds a manual      *)
(* program for hackerone.com.                                              *)
(***************************************************************************)
\* what the user types to add a program for hackerone.com
AddedDomainInput == <<"hackerone.com">>
AddedUrlInput == <<"https:", "//", "hackerone.com", "/", "security">>

AddNext ==
    \/ \E url \in {UrlA, UrlH} : onUpdated(1, url)
    \/ \E s \in CheckSlots : checkDomainAndUpdateBadge_tabsGet(s)
    \/ \E s \in CheckSlots : checkDomainAndUpdateBadge_lookupDone(s)
    \/ \E s \in CheckSlots : updateBadge_tabsGet(s)
    \/ \E s \in CheckSlots : updateBadge_setBadgeText(s)
    \/ \E s \in CheckSlots : updateBadge_setBadgeBackgroundColor(s)
    \/ \E s \in CheckSlots : updateBadge_setTitle(s)
    \/ \E tm \in timers : cacheTimer(tm)
    \/ Tick
    \/ addManualProgram(1, AddedDomainInput, AddedUrlInput)
    \/ addManualProgram_get(1)
    \/ addManualProgram_set(1)

SpecAdd == Init /\ [][AddNext]_vars

(***************************************************************************)
SpecFair ==
    /\ Init
    /\ [][Next]_vars
    /\ WF_vars(Tick)
    /\ WF_vars(\E tm \in timers : cacheTimer(tm))

(***************************************************************************)
(* The simplified background.js: its listeners test the scheme prefixes on *)
(* the hostname, checkDomainAndUpdateBadge does not look the tab up, and   *)
(* updateBadge issues its three calls without awaiting them.               *)
(***************************************************************************)
\* domain.startsWith('chrome://') || 'moz-extension://' || 'chrome-extension://',
\* domain being the hostname: one token, compared with a scheme and "//"
simplified_startsWithScheme(domain) ==
    LET h == <<domain>>
    IN /\ Len(h) >= 2
       /\ h[1] \in {"chrome:", "moz-extension:", "chrome-extension:"}
       /\ h[2] = "//"

\* the listeners' test for a page to look up
simplified_lookupWanted(url) ==
    /\ URLParses(url)
    /\ URLhostname(url) # ""
    /\ ~simplified_startsWithScheme(URLhostname(url))

\* updateBadge(found, tabId): setBadgeText, setBadgeBackgroundColor and
\* setTitle are issued at once; on a closed tab they have no effect
simplified_updateBadge(b, found, t) ==
    IF ~tabs[t].open THEN b
    ELSE [b EXCEPT ![t] = IF found
              THEN [text |-> TextFound, color |-> ColorFound, title |-> TitleFound]
              ELSE [text |-> TextNotFound, color |-> ColorNotFound, title |-> TitleNotFound]]

\* checkDomainAndUpdateBadge(domain, tabId) up to its first await: a cache hit
\* updates the badge and returns, a miss starts performLookup
simplified_checkDomainAndUpdateBadge(s, domain, t) ==
    IF domainCache[domain].has
        THEN /\ badge' = simplified_updateBadge(badge, domainCache[domain].found, t)
             /\ checks' = [checks EXCEPT ![s] =
                    [FreeSlot EXCEPT !.pc = "done", !.domain = domain, !.tabId = t,
                                     !.found = domainCache[domain].found,
                                     !.attemptedFalse = ~domainCache[domain].found,
                                     !.touched = tabs[t].open]]
        ELSE /\ checks' = [checks EXCEPT ![s] =
                    startLookup([FreeSlot EXCEPT !.domain = domain, !.tabId = t])]
             /\ UNCHANGED badge

\* chrome.tabs.onUpdated listener of the simplified version
simplified_onUpdated(t, url) ==
    /\ events < MaxEvents
    /\ tabs[t].open
    /\ tabs' = [tabs EXCEPT ![t].url = url]
    /\ events' = events + 1
    /\ IF ~tabs[t].active
          THEN UNCHANGED <<checks, badge>>
          ELSE IF simplified_lookupWanted(url)
                  THEN /\ \E s \in CheckSlots : SlotAvailable(s)
                       /\ simplified_checkDomainAndUpdateBadge(NewSlot, URLhostname(url), t)
                  ELSE /\ badge' = clearBadge(badge, t, "ok")
                       /\ UNCHANGED checks
    /\ UNCHANGED <<domainCache, timers, now, dd, pr, ui, lk, storage, apiKeys, settingsPage>>

\* chrome.tabs.onActivated listener of the simplified version: it calls
\* chrome.tabs.get(tabId, callback)
simplified_onActivated(t) ==
    /\ events < MaxEvents
    /\ tabs[t].open /\ ~tabs[t].active
    /\ \E s \in CheckSlots : SlotAvailable(s)
    /\ tabs' = [u \in Tabs |-> [tabs[u] EXCEPT !.active = (u = t)]]
    /\ events' = events + 1
    /\ checks' = [checks EXCEPT ![NewSlot] = [FreeSlot EXCEPT !.pc = "act_get", !.tabId = t]]
    /\ UNCHANGED <<badge, domainCache, timers, now, dd, pr, ui, lk, storage, apiKeys, settingsPage>>

\* the callback of chrome.tabs.get in onActivated; for a closed tab it gets
\* undefined and throws on tab.url
simplified_onActivated_callback(s) ==
    /\ checks[s].pc = "act_get"
    /\ LET t == checks[s].tabId
           url == tabs[t].url
       IN IF ~tabs[t].open
             THEN /\ checks' = [checks EXCEPT ![s] = FreeSlot]
                  /\ UNCHANGED badge
             ELSE IF simplified_lookupWanted(url)
                     THEN simplified_checkDomainAndUpdateBadge(s, URLhostname(url), t)
                     ELSE /\ badge' = clearBadge(badge, t, "ok")
                          /\ checks' = [checks EXCEPT ![s] = FreeSlot]
    /\ UNCHANGED <<tabs, events, domainCache, timers, now, dd, pr, ui, lk, storage, apiKeys, settingsPage>>

\* checkDomainAndUpdateBadge of the simplified version: performLookup returns,
\* the result is cached, the removal is scheduled, updateBadge is called
simplified_lookupDone(s) ==
    /\ checks[s].pc = "lookup"
    /\ LET c == checks[s]
       IN \E net \in NetPool(c.domain), ok \in BOOLEAN :
             LET manual == IF ok THEN manualMatches(storage, 1, c.domain) ELSE <<>>
                 result == performLookupResult(c.domain, dedupePrograms(net \o manual))
                 hasPrograms == /\ result.data.found
                                /\ "programs" \in DOMAIN result.data
                                /\ Len(result.data.programs) > 0
             IN /\ domainCache' = [domainCache EXCEPT ![c.domain] =
                        [has |-> TRUE, found |-> result.found, timestamp |-> now]]
                /\ timers' = scheduleRemoval(timers, c.domain)
                /\ badge' = simplified_updateBadge(badge, hasPrograms, c.tabId)
                /\ checks' = [checks EXCEPT ![s] =
                       [c EXCEPT !.pc = "done", !.found = hasPrograms,
                                 !.attemptedFalse = ~hasPrograms,
                                 !.touched = tabs[c.tabId].open]]
    /\ UNCHANGED <<tabs, events, now, dd, pr, ui, lk, storage, apiKeys, settingsPage>>

(***************************************************************************)
(* Specification SpecSimplified: the service worker of the simplified      *)
(* background.js.                                                          *)
(***************************************************************************)
SimplifiedNext ==
    \/ \E t \in Tabs, url \in TabUrlPool : simplified_onUpdated(t, url)
    \/ \E t \in Tabs : simplified_onActivated(t)
    \/ \E s \in CheckSlots : simplified_onActivated_callback(s)
    \/ \E t \in Tabs : onRemoved(t)
    \/ \E s \in CheckSlots : simplified_lookupDone(s)
    \/ \E tm \in timers : cacheTimer(tm)
    \/ Tick

SpecSimplified == Init /\ [][SimplifiedNext]_vars

(***************************************************************************)
(* Properties of performLookup.                                            *)
(***************************************************************************)
\* the canonical key of a link, as the specification words it
CanonicalKey(link) ==
    IF URLParses(link) THEN replaceTrailingSlash(URLhref(link)) ELSE link

\* the records of a list that no earlier record shares its key with, in order
FirstOccurrences(list) ==
    LET keep == { i \in 1..Len(list) :
                    \A j \in 1..(i - 1) :
                        CanonicalKey(list[j].link) # CanonicalKey(list[i].link) }
        F[i \in 0..Len(list)] ==
            IF i = 0 THEN <<>>
            ELSE IF i \in keep THEN Append(F[i - 1], list[i]) ELSE F[i - 1]
    IN F[Len(list)]

\* the outputs of the four probes, in the order of the pipeline
ProbeOutputs == lk.secOut \o lk.homeOut \o lk.platformDirect \o lk.manualPrograms

\* C2: the lookup result is the concatenation of the probe outputs in the
\* order Security-Policy, Homepage, Platform-Path, Manual, of which only the
\* first record per canonical key is kept, whatever its platform tag, the kept
\* records in the order of their first occurrence.
C2_FirstRecordPerKeyInProbeOrder ==
    lk.pc = "done" =>
        /\ lk.programs = FirstOccurrences(ProbeOutputs)
        /\ lk.result.found => lk.result.data.programs = lk.programs

\* Witness of C2: all four probes contributed, and a record of a later probe
\* was dropped for a record of an earlier probe with another platform tag.
C2_Witness ==
    /\ lk.pc = "done"
    /\ lk.secOut # <<>> /\ lk.homeOut # <<>>
    /\ lk.platformDirect # <<>> /\ lk.manualPrograms # <<>>
    /\ \E i, j \in 1..Len(ProbeOutputs) :
          /\ i < j
          /\ CanonicalKey(ProbeOutputs[i].link) = CanonicalKey(ProbeOutputs[j].link)
          /\ ProbeOutputs[i].platform # ProbeOutputs[j].platform
          /\ ProbeOutputs[i].link # ProbeOutputs[j].link
    /\ Len(lk.programs) >= 3

AllProbesEmpty ==
    lk.secOut = <<>> /\ lk.homeOut = <<>> /\ lk.platformDirect = <<>>
        /\ lk.manualPrograms = <<>>

\* C3 as claimed: found is true exactly when a record survived dedupe, and
\* when all four probes return empty the result is found = false with an
\* empty programs list.
C3_Claimed_EmptyProgramsList ==
    lk.pc = "done" =>
        /\ lk.result.found <=> Len(lk.programs) > 0
        /\ AllProbesEmpty =>
              /\ lk.result.data.found = FALSE
              /\ "programs" \in DOMAIN lk.result.data
              /\ lk.result.data.programs = <<>>

\* C3 as amended: found (and data.found) is true exactly when a record
\* survived dedupe, data.programs is then the surviving list; when all four
\* probes return empty the result is found = false and data carries no
\* programs field at all.
C3_FoundIffRecordSurvived ==
    lk.pc = "done" =>
        /\ lk.result.found <=> Len(lk.programs) > 0
        /\ lk.result.data.found = lk.result.found
        /\ lk.result.found => lk.result.data.programs = lk.programs
        /\ ~lk.result.found => DOMAIN lk.result.data = {"found"}
        /\ AllProbesEmpty => ~lk.result.found

\* Witness of C3: a lookup in which every network probe failed and no manual
\* entry matched, and which returned found = false.
C3_Witness ==
    /\ lk.pc = "done"
    /\ AllProbesEmpty
    /\ lk.secTxt.isNull /\ lk.homepageHtml.isNull
    /\ lk.result.found = FALSE

\* the Manual records of the entries stored for a domain, in stored order
ManualRecordsOf(entries, domain) ==
    LET F[k \in 0..Len(entries)] ==
            IF k = 0 THEN <<>>
            ELSE IF entries[k].domain = domain
                THEN Append(F[k - 1],
                            [platform |-> "Manual", link |-> entries[k].url,
                             scope |-> domain, description |-> "", rewards |-> ""])
                ELSE F[k - 1]
    IN F[Len(entries)]

\* the records ahead of the k-th stored entry in the concatenation: the
\* outputs of the network probes and the Manual records of the matching
\* entries stored before it
AheadOfEntry(k) ==
    lk.secOut \o lk.homeOut \o lk.platformDirect
        \o ManualRecordsOf(SubSeq(storage, 1, k - 1), lk.domain)

IsHitOutcome(i) ==
    /\ lk.plat[i].outcome.kind = "response"
    /\ lk.plat[i].outcome.status \in (200..299) \cup {301, 302}

ProbeReturned == lk.pc \in {"manual", "done"}

\* C8: whatever the outcomes of the four checks, probeKnownPlatformPaths
\* returns exactly one Platform record per check that ended with a success
\* status or 301/302, with that template URL as link, and nothing else; a
\* failed or timed-out check does not keep the probe from returning.
C8_OneRecordPerHit ==
    /\ ProbeReturned =>
          /\ \A i \in Slots :
                Cardinality({ r \in 1..Len(lk.platformDirect) :
                                 lk.platformDirect[r].link = platformUrls(lk.domain)[i] })
                    = (IF IsHitOutcome(i) THEN 1 ELSE 0)
          /\ \A r \in 1..Len(lk.platformDirect) :
                /\ lk.platformDirect[r].platform = "Platform"
                /\ lk.platformDirect[r].scope = lk.domain
                /\ \E i \in Slots : lk.platformDirect[r].link = platformUrls(lk.domain)[i]
    /\ (lk.pc = "plat" /\ \A i \in Slots : lk.plat[i].st = "settled") =>
          ENABLED probeKnownPlatformPaths_allSettled

\* Witness of C8: only hackerone.com answered 200, two checks timed out and
\* one met a network error; the probe returned exactly one record.
C8_Witness ==
    /\ ProbeReturned
    /\ lk.plat[1].outcome = [kind |-> "response", status |-> 200]
    /\ lk.plat[2].outcome.kind = "timeout"
    /\ lk.plat[3].outcome.kind = "timeout"
    /\ lk.plat[4].outcome.kind = "neterr"
    /\ Len(lk.platformDirect) = 1

\* C9: the Platform-Path probe issues all four existence checks before it
\* waits for any of them: while the probe waits, no check is still to be
\* issued, so no response or timeout stands between another check and its
\* request.
C9_Claimed_AllFourIssuedBeforeAnyWait ==
    lk.pc = "plat" => \A i \in Slots : lk.plat[i].st # "idle"

\* what each probe contributes, from the responses the network gave
SecContribution ==
    IF lk.secTxt.isNull THEN <<>> ELSE parseSecurityTxt(lk.secTxt.text, lk.domain)

HomeContribution ==
    IF lk.homepageHtml.isNull THEN <<>>
    ELSE parseHomepageForBounty(lk.homepageHtml.text, lk.domain)

PlatContribution ==
    LET F[i \in 0..4] ==
            IF i = 0 THEN <<>>
            ELSE IF IsHitOutcome(i)
                THEN Append(F[i - 1],
                            makeProgram("Platform", platformUrls(lk.domain)[i], lk.domain))
                ELSE F[i - 1]
    IN F[4]

ManualContribution ==
    IF lk.storageOk THEN ManualRecordsOf(storage, lk.domain) ELSE <<>>

\* C10: whichever network probes fail, performLookup returns (it does not
\* reject) and its result is the dedupe of what the probes that succeeded
\* give: a failed probe adds no record and takes none away.
C10_FailedProbesContributeNothing ==
    /\ lk.outcome # "rejected"
    /\ lk.pc = "done" =>
          /\ lk.outcome = "returned"
          /\ lk.programs =
                FirstOccurrences(SecContribution \o HomeContribution
                                    \o PlatContribution \o ManualContribution)
          /\ lk.result = performLookupResult(lk.domain, lk.programs)

\* Witness of C10: both security.txt requests and the homepage request
\* failed, one platform check timed out, and the lookup still returned the
\* records of the platform hit and of the manual entries.
C10_Witness ==
    /\ lk.pc = "done" /\ lk.outcome = "returned"
    /\ lk.secTxt.isNull /\ lk.homepageHtml.isNull
    /\ \E i \in Slots : lk.plat[i].outcome.kind = "timeout"
    /\ lk.platformDirect # <<>> /\ lk.manualPrograms # <<>>
    /\ lk.result.found
    /\ Len(lk.result.data.programs) = Len(lk.platformDirect) + Len(lk.manualPrograms)


(***************************************************************************)
(* Properties of the parsers.                                              *)
(***************************************************************************)
\* the absolute http(s) URL of a line: from the leftmost scheme that a host
\* follows up to the next white space or double quote, neither of which a
\* URL can hold; <<>> when the line has none
UrlOfLine(line) ==
    LET starts == { i \in 1..Len(line) :
                       /\ i + 2 <= Len(line)
                       /\ line[i] \in HttpSchemes
                       /\ line[i + 1] = "//"
                       /\ line[i + 2] \notin {" ", "\""} }
    IN IF starts = {} THEN <<>>
       ELSE LET i == CHOOSE h \in starts : \A g \in starts : h <= g
                ends == { j \in (i + 2)..Len(line) :
                             \A k \in (i + 2)..j : line[k] \notin {" ", "\""} }
            IN <<SubSeq(line, i, CHOOSE j \in ends : \A k \in ends : k <= j)>>

\* platform and link of the records, in order
PlatformAndLink(programs) ==
    [k \in 1..Len(programs) |-> <<programs[k].platform, programs[k].link>>]

RECURSIVE UrlRecords(_)
UrlRecords(lines) ==
    IF lines = <<>> THEN <<>>
    ELSE (IF UrlOfLine(Head(lines)) = <<>> THEN <<>>
          ELSE << <<"Security.txt", UrlOfLine(Head(lines))[1]>> >>)
         \o UrlRecords(Tail(lines))

\* C13 (as claimed): parseSecurityTxt returns, in line order, one
\* Security.txt record per line that holds an absolute http(s) URL, its link
\* being that URL, and nothing for the other lines.
C13_Claimed_OneRecordPerUrlLine ==
    pr.pc = "done" /\ pr.fn \in {"parseSecurityTxt", "simplified_parseSecurityTxt"} =>
        PlatformAndLink(pr.out) = UrlRecords(pr.lines)

\* the records of one platform tag
RecordsTagged(programs, tag) == SelectSeq(programs, LAMBDA p : p.platform = tag)

\* C14 (as claimed): markup whose href values hold no platform name yields no
\* Platform record, relative links included, and markup that holds a keyword
\* yields exactly one Website record, for the bare domain homepage.
C14_Claimed_NoNameNoPlatformRecord ==
    pr.pc = "done" /\ pr.fn = "parseHomepageForBounty" =>
        /\ ~hasPlatformName(concat(pr.lines)) => RecordsTagged(pr.out, "Platform") = <<>>
        /\ hasKeyword(concat(pr.lines)) =>
              PlatformAndLink(RecordsTagged(pr.out, "Website"))
                  = << <<"Website", <<"https:", "//", pr.domain>> >> >>

(***************************************************************************)
(* Properties of the settings page.                                        *)
(***************************************************************************)
\* the call reported 'Manual program added successfully!'
ReportedSaved(c) == ui[c].pc = "done" /\ ui[c].message = "Manual program added successfully!"

\* C15 (as claimed): the stored list never holds the same (domain, url) pair
\* twice, and every entry an add reported as saved is in the stored list.
C15_Claimed_NoDuplicateNoLostEntry ==
    /\ \A j, k \in 1..Len(storage) :
          storage[j].domain = storage[k].domain /\ storage[j].url = storage[k].url => j = k
    /\ \A c \in UiCalls :
          ReportedSaved(c) =>
              \E k \in 1..Len(storage) :
                  storage[k].domain = ui[c].domain /\ storage[k].url = ui[c].url

\* C17 (as claimed): with timers that fire and aborted requests that reject,
\* every performLookup completes, whatever the endpoints do.
C17_Claimed_EveryLookupCompletes == <>(lk.pc = "done")

(***************************************************************************)
(* Properties of the API-key variant.                                      *)
(***************************************************************************)
ApiPlatforms == {"HackerOne", "Bugcrowd"}

\* the key of a platform's API is held
KeyHeld(api) == IF api = "HackerOne" THEN apiKeys.hackerone ELSE apiKeys.bugcrowd

\* C16: a lookup whose API pre-check had a hit returns exactly the API hits
\* with found = true and has started no heuristic probe; a response built by
\* the heuristics holds no API record; and an API request is made only while
\* the key of its platform is held.
C16_ApiHitsShortCircuit ==
    /\ [](lk.pc = "done" /\ Len(lk.apiResults) > 0 =>
             /\ lk.result.data.found
             /\ lk.result.data.programs = lk.apiResults
             /\ ~lk.heuristics
             /\ \A i \in Slots : lk.plat[i].st = "idle")
    /\ [](lk.pc = "done" /\ lk.heuristics =>
             /\ lk.apiResults = <<>>
             /\ \A k \in 1..Len(lk.programs) : lk.programs[k].platform \notin ApiPlatforms)
    /\ [][lk'.apiIssued # lk.apiIssued =>
             KeyHeld(lk'.apiIssued[Len(lk'.apiIssued)])]_vars

\* C16 witness: the pre-check had a hit, a manual entry for the domain is
\* stored, and the lookup has returned the API hits.
C16_Witness ==
    /\ lk.pc = "done"
    /\ Len(lk.apiResults) > 0
    /\ \E k \in 1..Len(storage) : storage[k].domain = lk.domain
    /\ lk.result.data.programs = lk.apiResults

(***************************************************************************)
(* Properties of the badge controller.                                     *)
(***************************************************************************)
\* C5 (as claimed): an entry written for a domain at time T is still in the
\* cache at every moment before T + 10 minutes, whatever the interleaving of
\* tab events: while the removal scheduled by a write is pending and not yet
\* due, a badge check for the domain is a cache hit.
C5_Claimed_EntryLivesTenMinutes ==
    \A tm \in timers : now < tm.due => domainCache[tm.domain].has

\* the internal pages: the URLs isExtensionUrl names
InternalUrls == { u \in TabUrlPool : isExtensionUrl(u) }

\* C6 (as claimed): no domain lookup is ever started for a tab that shows an
\* internal page: no running lookup is for the host of an internal URL.
C6_Claimed_NoLookupForInternalPage ==
    \A s \in CheckSlots :
        checks[s].pc = "lookup" =>
            \A u \in InternalUrls : URLhostname(u) # checks[s].domain

\* fetchSecurityTxt is running and waits for the response or the body of the
\* URL lk.url of its list
SecurityTxtPending == lk.pc \in {"sec_fetch", "sec_text"}

\* C21: fetchSecurityTxt starts with /.well-known/security.txt; it requests
\* /security.txt only in a step that ends the first attempt without a body;
\* it returns a text only in the step that delivers the body of a success
\* response, and null only in a step that ends the attempt on /security.txt.
C21_WellKnownFirstThenFallback ==
    /\ [][lk.pc = "idle" /\ lk'.pc # "idle" =>
             /\ lk'.pc = "sec_fetch"
             /\ securityTxtUrls(lk.domain)[lk'.url][5] = ".well-known"]_vars
    /\ [][SecurityTxtPending /\ lk' # lk =>
             \/ /\ lk.pc = "sec_fetch" /\ lk'.pc = "sec_text" /\ lk'.url = lk.url
             \/ /\ lk.url = 1 /\ lk'.pc = "sec_fetch" /\ lk'.url = 2
                /\ lk'.secTxt = lk.secTxt /\ lk'.results = lk.results
             \/ /\ lk.pc = "sec_text" /\ lk'.pc = "home_fetch"
                /\ ~lk'.secTxt.isNull /\ lk'.secTxt.text \in SecBodies
             \/ /\ lk.url = 2 /\ lk'.pc = "home_fetch"
                /\ lk'.secTxt.isNull /\ lk'.results = lk.results]_vars

\* C21 witness: the first attempt ended without a body and the request for
\* /security.txt was answered with a success status, its body being read.
C21_Witness ==
    /\ lk.pc = "sec_text"
    /\ securityTxtUrls(lk.domain)[lk.url] = <<"https:", "//", lk.domain, "/", "security.txt">>
    /\ lk.secTxt.isNull

\* url is the URL of a web page: it parses, has a hostname and is not one of
\* the browser's internal pages
IsWebUrl(url) == URLParses(url) /\ URLhostname(url) # "" /\ ~isExtensionUrl(URLhref(url))

Answered(s) == checks[s].pc = "rl_done"

\* C11: a runLookup request that could not resolve an active tab with a
\* parseable URL is answered with an error field and no data field and never
\* starts the probes; every other request is answered with message and
\* data.found and no error field.
C11_ErrorResponseIffNoActiveTab ==
    \A s \in CheckSlots :
        /\ checks[s].pc = "rl_lookup" => checks[s].tabId # 0
        /\ Answered(s) =>
              LET r == checks[s].response[1]
              IN IF checks[s].tabId = 0
                    THEN DOMAIN r = {"error"}
                    ELSE /\ {"message", "data"} \subseteq DOMAIN r
                         /\ "found" \in DOMAIN r.data
                         /\ "error" \notin DOMAIN r

\* C11 witness: one request answered with an error and another answered with
\* a lookup result.
C11_Witness ==
    \E s, r \in CheckSlots :
        /\ Answered(s) /\ checks[s].tabId = 0 /\ "error" \in DOMAIN checks[s].response[1]
        /\ Answered(r) /\ checks[r].tabId # 0 /\ "data" \in DOMAIN checks[r].response[1]

\* C12: a step of a runLookup request never changes the cache or its timers,
\* and a request that resolved its domain is answered only by the step that
\* ends its own performLookup, cached entry or not.
C12_PopupBypassesCache ==
    [][\A s \in CheckSlots :
          checks[s].pc \in {"rl_query", "rl_lookup"} /\ checks'[s] # checks[s] =>
              /\ domainCache' = domainCache
              /\ timers' = timers
              /\ (checks'[s].pc = "rl_done" /\ checks'[s].tabId # 0 =>
                     checks[s].pc = "rl_lookup")]_vars

\* C12 witness: a request for a domain with a cached entry went into its own
\* lookup and was answered while the entry was still there.
C12_Witness ==
    \E s \in CheckSlots :
        /\ Answered(s)
        /\ checks[s].domain \in CacheKeys
        /\ domainCache[checks[s].domain].has
        /\ "data" \in DOMAIN checks[s].response[1]
        /\ checks[s].found # domainCache[checks[s].domain].found

\* C18: an entry is never in the cache more than 10 minutes after it was
\* written, and once the tab events have stopped the cache becomes empty and
\* stays empty; the only removals are the scheduled ones.
C18_EntriesExpire ==
    /\ [](\A d \in CacheKeys : domainCache[d].has => now <= domainCache[d].timestamp + TTL)
    /\ <>[](\A d \in CacheKeys : ~domainCache[d].has)

\* C18 witness: a lookup found programs and cached them, ten minutes or more
\* have passed, and the scheduled removals have emptied the cache.
C18_Witness ==
    /\ \E s \in CheckSlots : checks[s].pc = "done" /\ checks[s].found /\ checks[s].touched
    /\ now >= TTL
    /\ timers = {}
    /\ \A d \in CacheKeys : ~domainCache[d].has

\* a badge check (checkDomainAndUpdateBadge with its updateBadge, or the
\* then-callback of onActivated) is running in slot s
BadgeCheckInFlight(s) ==
    checks[s].pc \in {"act_get", "get", "lookup", "ub_get", "ub_text", "ub_color", "ub_title"}

\* the badge check of slot s ran for tab t and the domain t shows now, and
\* its setBadgeText was carried out
CheckedCurrentDomain(s, t) ==
    /\ checks[s].pc = "done"
    /\ checks[s].tabId = t
    /\ URLParses(tabs[t].url)
    /\ checks[s].domain = URLhostname(tabs[t].url)
    /\ checks[s].touched

\* C19 (as the specification states it): once no badge check is in flight,
\* the badge text of every open tab for whose current domain a check set the
\* badge is the text such a check set; a check for a domain the tab has left
\* has not written over it.
C19_Claimed_NoStaleOverwrite ==
    (\A s \in CheckSlots : ~BadgeCheckInFlight(s)) =>
        \A t \in Tabs :
            tabs[t].open /\ (\E s \in CheckSlots : CheckedCurrentDomain(s, t)) =>
                \E s \in CheckSlots :
                    /\ CheckedCurrentDomain(s, t)
                    /\ badge[t].text = IF checks[s].found THEN TextFound ELSE TextNotFound

\* C20: a badge check that finds its domain in the cache never starts
\* performLookup and goes on to updateBadge with the cached found value; and
\* the found value a computing check caches is the one it hands to its own
\* updateBadge.
C20_CacheHitUsesCachedFound ==
    /\ [][\A s \in CheckSlots :
             checks[s].pc = "get" /\ domainCache[checks[s].domain].has =>
                 /\ checks'[s].pc # "lookup"
                 /\ ~checks'[s].lookedUp
                 /\ checks'[s].pc = "ub_get" /\ checks'[s].raised = "none" =>
                        checks'[s].found = domainCache[checks[s].domain].found]_vars
    /\ [][\A s \in CheckSlots :
             checks[s].pc = "lookup" /\ checks'[s].pc = "ub_get" =>
                 /\ domainCache'[checks[s].domain].has
                 /\ domainCache'[checks[s].domain].found = checks'[s].found]_vars

\* C20 witness: a check that ran without performLookup and without an error
\* has set the check mark on its tab, for a domain another check looked up
\* and found programs for.
C20_Witness ==
    \E s, r \in CheckSlots :
        /\ checks[s].pc = "done" /\ checks[s].touched /\ ~checks[s].lookedUp
        /\ checks[s].raised = "none" /\ checks[s].found
        /\ badge[checks[s].tabId].text = TextFound
        /\ checks[r].pc = "done" /\ checks[r].lookedUp /\ checks[r].touched
        /\ checks[r].domain = checks[s].domain /\ checks[r].found

\* the program points inside updateBadge
InUpdateBadge == {"ub_get", "ub_text", "ub_color", "ub_title"}

\* C24: no badge check ever passes an error to its caller, from updateBadge
\* or from checkDomainAndUpdateBadge: a check in which a browser call failed
\* or found the tab closed is in updateBadge(false) or has returned, and one
\* that saw the tab closed has returned; and the step of a listener that
\* calls clearBadge changes nothing but the text of that tab's badge, cleared
\* or left as it was.
C24_BadgeFunctionsNeverReject ==
    /\ [](\A s \in CheckSlots :
             /\ checks[s].rejected = "none"
             /\ BadgeCheckInFlight(s) /\ checks[s].raised # "none" =>
                    checks[s].pc \in InUpdateBadge /\ checks[s].attemptedFalse
             /\ checks[s].raised = "notab" => checks[s].pc = "done")
    /\ [][\A t \in Tabs :
             tabs[t].active /\ tabs'[t].url # tabs[t].url /\ ~IsWebUrl(tabs'[t].url) =>
                 /\ checks' = checks
                 /\ badge' \in {badge, [badge EXCEPT ![t].text = ""]}]_vars

\* C24 witness: a tab was closed after the check had set its badge text; the
\* next browser call found no tab and the check returned.
C24_Witness ==
    \E s \in CheckSlots :
        /\ checks[s].pc = "done" /\ checks[s].touched
        /\ checks[s].raised = "notab" /\ checks[s].rejected = "none"
        /\ ~tabs[checks[s].tabId].open

\* the two indicator states of a tab
FoundBadge == [text |-> TextFound, color |-> ColorFound, title |-> TitleFound]
NotFoundBadge == [text |-> TextNotFound, color |-> ColorNotFound, title |-> TitleNotFound]

\* the updateBadge call of slot s, for tab t, has carried out all three of
\* its calls and returned
UpdateBadgeCompleted(s, t) ==
    /\ checks[s].pc = "done" /\ checks[s].tabId = t
    /\ checks[s].touched /\ checks[s].raised = "none"

\* C25 (as the specification states it): once two updateBadge calls for a
\* tab with different found values have both completed, without any of their
\* browser calls failing, the text, colour and title of the tab, unless its
\* badge was cleared, are those of one indicator state.
C25_Claimed_BadgeFieldsAgree ==
    \A t \in Tabs :
        /\ tabs[t].open
        /\ \E s, r \in CheckSlots :
              /\ UpdateBadgeCompleted(s, t) /\ UpdateBadgeCompleted(r, t)
              /\ checks[s].found /\ ~checks[r].found
        => badge[t].text = "" \/ badge[t] \in {FoundBadge, NotFoundBadge}

\* C26 (as the specification states it): when a deleteProgram call has
\* stored its list, the stored list is the list it read without the entry
\* that was displayed next to the button, every other entry in its place.
C26_Claimed_DeletesDisplayedEntry ==
    settingsPage.pc = "done" =>
        \E k \in 1..Len(settingsPage.before) :
            /\ <<settingsPage.before[k]>> = settingsPage.shown
            /\ storage = splice(settingsPage.before, k - 1)

\* the hostname the text typed into the domain field names: the text
\* without a leading scheme
TypedHost(typed) ==
    joinTokens(IF Len(typed) >= 2 /\ typed[1] \in HttpSchemes /\ typed[2] = "//"
                  THEN SubSeq(typed, 3, Len(typed)) ELSE typed)

\* C27 (as the specification states it): while the entry an add reported as
\* saved is in the stored list, getManualPrograms for the hostname the user
\* typed returns a Manual record with the entry's URL.
C27_Claimed_AddedProgramFoundForTypedDomain ==
    \A c \in UiCalls :
        ReportedSaved(c) /\ exists(storage, ui[c].domain, ui[c].url) =>
            \E k \in 1..Len(manualMatches(storage, 1, TypedHost(ui[c].typed))) :
                LET p == manualMatches(storage, 1, TypedHost(ui[c].typed))[k]
                IN p.platform = "Manual" /\ p.link = ui[c].url

\* a runLookup request is running in slot s
RunLookupPending(s) == checks[s].pc \in {"rl_query", "rl_lookup"}

HasManualProgram(domain) == \E k \in 1..Len(storage) : storage[k].domain = domain

\* C29 (as the specification states it): once the settings page has
\* reported the program for a domain as saved, a badge check for that domain
\* that consults the cache, finds an entry written before the program was
\* added, and goes straight on to updateBadge, does so with found = true.
C29_Claimed_StoredProgramShowsFound ==
    [][\A s \in CheckSlots :
          /\ ReportedSaved(1) /\ HasManualProgram(ui[1].domain)
          /\ checks[s].domain = ui[1].domain
          /\ checks[s].pc = "get" /\ checks'[s].pc = "ub_get"
          /\ checks'[s].raised = "none"
          /\ domainCache[checks[s].domain].has
          /\ domainCache[checks[s].domain].timestamp < ui[1].dateAdded
          => checks'[s].found]_vars

\* the position of a link in the template list of probeKnownPlatformPaths
TemplateIndex(link) == CHOOSE i \in Slots : platformUrls(lk.domain)[i] = link

\* the records of the checks that ended with a hit, in template order
HitsInTemplateOrder ==
    LET F[i \in 0..4] ==
            IF i = 0 THEN <<>>
            ELSE IF IsHitOutcome(i)
                    THEN Append(F[i - 1],
                                makeProgram("Platform", platformUrls(lk.domain)[i], lk.domain))
                    ELSE F[i - 1]
    IN F[4]

\* C30: what probeKnownPlatformPaths returns is fixed by the outcomes of the
\* four checks: the hit records in the order hackerone, bugcrowd, yeswehack,
\* intigriti, in whatever order the checks settled; and so is the list the
\* lookup returns, for the outputs of the other probes.
C30_HitsInTemplateOrder ==
    /\ ProbeReturned =>
          /\ lk.platformDirect = HitsInTemplateOrder
          /\ \A r, q \in 1..Len(lk.platformDirect) :
                r < q => TemplateIndex(lk.platformDirect[r].link)
                            < TemplateIndex(lk.platformDirect[q].link)
    /\ lk.pc = "done" /\ lk.outcome = "returned" =>
          lk.programs = dedupePrograms(lk.secOut \o lk.homeOut \o HitsInTemplateOrder
                                           \o lk.manualPrograms)

\* C30 witness: the checks of bugcrowd and intigriti answered with a hit
\* before the 3 s timer ended the check of hackerone; the two records are
\* returned, bugcrowd first.
C30_Witness ==
    /\ lk.pc = "done"
    /\ lk.plat[1].outcome.kind = "timeout"
    /\ IsHitOutcome(2) /\ ~IsHitOutcome(3) /\ IsHitOutcome(4)
    /\ Len(lk.platformDirect) = 2
    /\ lk.platformDirect[1].link = platformUrls(lk.domain)[2]
    /\ lk.platformDirect[2].link = platformUrls(lk.domain)[4]

\* an error was raised in the invocation of slot s, which has returned
ReturnedWithError(s) == checks[s].pc = "done" /\ checks[s].raised # "none"

\* C7 (as claimed): every check in which an error was raised has attempted
\* updateBadge(false) by the time it returns.
C7_Claimed_AnyErrorAttemptsNotFound ==
    \A s \in CheckSlots : ReturnedWithError(s) => checks[s].attemptedFalse

\* C7 (amended): an error that reaches the catch of checkDomainAndUpdateBadge
\* leads to updateBadge(false) unless it is 'No tab with id', after which the
\* check returns without any badge call; an error raised inside updateBadge is
\* absorbed there, so updateBadge(false) was attempted only if that very call
\* was updateBadge(false).
C7_OtherErrorsAttemptNotFound ==
    \A s \in CheckSlots :
        LET c == checks[s]
        IN /\ c.caught = "other" => c.attemptedFalse
           /\ c.caught = "notab" => ~c.attemptedFalse /\ ~c.touched
           /\ c.caught = "none" /\ c.raised # "none" => (c.attemptedFalse <=> ~c.found)

\* C7 witness: a check caught an error other than 'No tab with id', and the
\* updateBadge(false) it then called went through and set the NotFound text.
C7_Witness ==
    \E s \in CheckSlots :
        /\ checks[s].pc = "done"
        /\ checks[s].caught = "other"
        /\ checks[s].touched
        /\ badge[checks[s].tabId].text = TextNotFound

(***************************************************************************)
(* Specification SpecDedupe: dedupePrograms applied to every list of at    *)
(* most MaxList records over a pool of links.                              *)
(***************************************************************************)
LinkPool ==
    { <<"https:", "//", "a.com">>,
      <<"https:", "//", "a.com", "/">>,
      <<"HTTPS:", "//", "A.COM", "/", "bounty">>,
      <<"https:", "//", "a.com", "/", "bounty">>,
      <<"https:", "//", "a.com", "/", "bounty", "/">>,
      <<"https:", "//", "a.com", "/", "bounty", "/", "/">>,
      <<"hackerone.com", "/", "a.com">>,
      <<"hackerone.com", "/", "a.com", "/">> }

RecordPool ==
    { makeProgram(src, l, "a.com") : src \in {"Platform", "Manual"}, l \in LinkPool }

SeqsUpTo(S, n) == UNION { [1..k -> S] : k \in 0..n }

DedupeInit ==
    /\ dd \in [pc : {"call"}, list : SeqsUpTo(RecordPool, MaxList), out : {<<>>}]
    /\ lk = LookupIdle
    /\ storage = <<>>
    /\ BadgeIdle
    /\ pr = ParseIdle
    /\ ui = UiIdle
    /\ apiKeys = NoKeys
    /\ settingsPage = PageIdle

DedupeCall ==
    /\ dd.pc = "call"
    /\ dd' = [dd EXCEPT !.pc = "done", !.out = dedupePrograms(dd.list)]
    /\ UNCHANGED <<pr, ui, lookupVars, badgeVars, settingsPage>>

DedupeNext == DedupeCall

SpecDedupe == DedupeInit /\ [][DedupeNext]_vars

\* the records of list whose link does, or does not, parse as a URL
WellFormed(list) == SelectSeq(list, LAMBDA p : URLParses(p.link))
Malformed(list) == SelectSeq(list, LAMBDA p : ~URLParses(p.link))

\* the records of a list that no earlier record shares its raw link with
RawFirstOccurrences(list) ==
    LET F[i \in 0..Len(list)] ==
            IF i = 0 THEN <<>>
            ELSE IF \A j \in 1..(i - 1) : list[j].link # list[i].link
                    THEN Append(F[i - 1], list[i])
                    ELSE F[i - 1]
    IN F[Len(list)]

\* C23: dedupePrograms returns for every list; of the records whose link does
\* not parse it keeps, in order, the first with each raw link string; and
\* the records whose link parses come out as they do from the list without
\* the malformed records.
C23_MalformedLinkKeyedByRawString ==
    dd.pc = "done" =>
        /\ Malformed(dd.out) = RawFirstOccurrences(Malformed(dd.list))
        /\ WellFormed(dd.out) = dedupePrograms(WellFormed(dd.list))
        /\ Len(dd.out) = Len(Malformed(dd.out)) + Len(WellFormed(dd.out))

\* C23 witness: a call with two malformed records of different link strings
\* and a well-formed record between them; all three records come out.
C23_Witness ==
    /\ dd.pc = "done"
    /\ Len(dd.list) = 3
    /\ Len(Malformed(dd.list)) = 2
    /\ dd.list[1].link # dd.list[3].link
    /\ ~URLParses(dd.list[1].link) /\ URLParses(dd.list[2].link)
    /\ Len(dd.out) = 3

\* C1: the list dedupePrograms returns never holds two records with the same
\* canonical key (the normalised URL with one trailing slash removed, or the
\* raw link when it does not parse), whatever the input list.
C1_NoTwoRecordsWithSameKey ==
    dd.pc = "done" =>
        \A i, j \in 1..Len(dd.out) :
            i # j =>
                (IF URLParses(dd.out[i].link)
                    THEN replaceTrailingSlash(URLhref(dd.out[i].link))
                    ELSE dd.out[i].link)
                # (IF URLParses(dd.out[j].link)
                    THEN replaceTrailingSlash(URLhref(dd.out[j].link))
                    ELSE dd.out[j].link)

\* Witness of C1: a call whose input held three records, two of them with
\* different links and one canonical key, and one with an unparseable link.
C1_Witness ==
    /\ dd.pc = "done"
    /\ Len(dd.list) = 3
    /\ Len(dd.out) = 2
    /\ dd.list[1].link # dd.list[2].link
    /\ \E i \in 1..3 : ~URLParses(dd.list[i].link)
    /\ \E i \in 1..3 : URLParses(dd.list[i].link)

====
